---- MODULE Spec2Model ----
(***************************************************************************)
(* A model of the rt ray tracer: the vector/ray algebra, the four          *)
(* primitive intersection routines, the scene's nearest-hit query, the     *)
(* camera, the shading of trace_ray, the pixel loop of render, the PPM     *)
(* writer and main, from the parsed arguments to the output.               *)
(*                                                                         *)
(* Numbers.  An f64 is modelled as an extended rational <<n, d>> in lowest *)
(* terms with d >= 0: d > 0 is the finite value n/d, <<1,0>> is +infinity, *)
(* <<-1,0>> is -infinity and <<0,0>> is NaN.  Finite arithmetic is exact   *)
(* (the rounding of f64 is not modelled, and there is one zero: -0.0 is    *)
(* 0.0); infinities and NaN follow IEEE 754.  A square root is taken only  *)
(* of perfect squares: the input sets are built so, and Sqrt of anything   *)
(* else has no value here instead of an approximate one.  SpecPlaced alone *)
(* rounds the result of every operation, to a few significant bits.        *)
(* SpecCapacity keeps a u32 as its four bytes, so that the arithmetic of   *)
(* the type is the arithmetic modulo 2^32 of the program.                  *)
(***************************************************************************)
EXTENDS Integers, Sequences, FiniteSets, TLC

VARIABLES pc, prim, ray, hit, scene, color, light_index, contrib,
          width, height, camera, x, y, writer, traced, written, output,
          args, file, stdout, returned, queries, attempts

vars == <<pc, prim, ray, hit, scene, color, light_index, contrib,
          width, height, camera, x, y, writer, traced, written, output,
          args, file, stdout, returned, queries, attempts>>

-----------------------------------------------------------------------------
(* Evaluation helpers: Op applied to the values of its arguments, each     *)
(* argument being evaluated once.                                          *)

With(v, Op(_)) == CHOOSE res \in {Op(u) : u \in {v}} : TRUE

With2(v, w, Op(_, _)) == CHOOSE res \in {Op(u1, u2) : u1 \in {v}, u2 \in {w}} : TRUE

-----------------------------------------------------------------------------
(* f64 as extended rationals                                               *)

IAbs(n) == IF n < 0 THEN -n ELSE n

ISign(n) == IF n < 0 THEN -1 ELSE IF n > 0 THEN 1 ELSE 0

RECURSIVE Gcd(_, _)
Gcd(a, b) == IF b = 0 THEN a ELSE With(a % b, LAMBDA m : Gcd(b, m))

\* n/d in lowest terms, d >= 0 on entry
NormV(n, d) ==
    IF d = 0 THEN <<ISign(n), 0>>
    ELSE With(Gcd(IAbs(n), d), LAMBDA g : <<n \div g, d \div g>>)

Norm(n, d) == With2(n, d, NormV)

F(n) == <<n, 1>>

Frac(n, d) == Norm(n, d)

NaN == <<0, 0>>

INFINITY == <<1, 0>>

NEG_INFINITY == <<-1, 0>>

IsNaN(a) == a = NaN

FNegV(a) == <<-a[1], a[2]>>

FNeg(a) == With(a, FNegV)

FAbsV(a) == <<IAbs(a[1]), a[2]>>

FAbs(a) == With(a, FAbsV)

FAddV(a, b) ==
    IF IsNaN(a) \/ IsNaN(b) THEN NaN
    ELSE IF a[2] = 0 THEN (IF b[2] = 0 /\ b[1] # a[1] THEN NaN ELSE a)
    ELSE IF b[2] = 0 THEN b
    ELSE With((a[2] \div Gcd(a[2], b[2])) * b[2],
              LAMBDA l : Norm(a[1] * (l \div a[2]) + b[1] * (l \div b[2]), l))

FAdd(a, b) == With2(a, b, FAddV)

FSub(a, b) == FAdd(a, FNeg(b))

\* cross-cancel before multiplying, so that the products stay small
FMulV(a, b) ==
    IF a[2] = 0 \/ b[2] = 0 THEN <<ISign(a[1]) * ISign(b[1]), 0>>
    ELSE With2(Gcd(IAbs(a[1]), b[2]), Gcd(IAbs(b[1]), a[2]),
               LAMBDA g1, g2 : Norm((a[1] \div g1) * (b[1] \div g2),
                                    (a[2] \div g2) * (b[2] \div g1)))

FMul(a, b) == With2(a, b, FMulV)

\* x / 0.0 is +-infinity, 0.0 / 0.0 and inf / inf are NaN, x / inf is 0
FDivV(a, b) ==
    IF IsNaN(a) \/ IsNaN(b) THEN NaN
    ELSE IF b[2] = 0 THEN (IF a[2] = 0 THEN NaN ELSE F(0))
    ELSE IF b[1] = 0 THEN <<ISign(a[1]), 0>>
    ELSE IF a[2] = 0 THEN <<a[1] * ISign(b[1]), 0>>
    ELSE FMulV(a, <<ISign(b[1]) * b[2], IAbs(b[1])>>)

FDiv(a, b) == With2(a, b, FDivV)

FloorDiv(n, d) == IF n >= 0 THEN n \div d ELSE -(((-n - 1) \div d) + 1)

\* the integer parts first, then the fractional parts: no large cross product
FLtV(a, b) ==
    IF IsNaN(a) \/ IsNaN(b) THEN FALSE
    ELSE IF a[2] = 0 /\ b[2] = 0 THEN a[1] < b[1]
    ELSE IF a[2] = 0 THEN a[1] < 0
    ELSE IF b[2] = 0 THEN b[1] > 0
    ELSE With2(FloorDiv(a[1], a[2]), FloorDiv(b[1], b[2]),
               LAMBDA qa, qb : IF qa # qb THEN qa < qb
                               ELSE (a[1] - qa * a[2]) * b[2] < (b[1] - qb * b[2]) * a[2])

FLt(a, b) == With2(a, b, FLtV)

FGt(a, b) == FLt(b, a)

FLeV(a, b) == ~IsNaN(a) /\ ~IsNaN(b) /\ ~FLtV(b, a)

FLe(a, b) == With2(a, b, FLeV)

FGe(a, b) == FLe(b, a)

\* the == of f64: NaN equals nothing
FEqV(a, b) == ~IsNaN(a) /\ ~IsNaN(b) /\ a = b

FEq(a, b) == With2(a, b, FEqV)

\* f64::max and f64::min return the other operand when one is NaN
FMaxV(a, b) == IF IsNaN(a) THEN b ELSE IF IsNaN(b) THEN a ELSE IF FLtV(a, b) THEN b ELSE a

FMax(a, b) == With2(a, b, FMaxV)

FMinV(a, b) == IF IsNaN(a) THEN b ELSE IF IsNaN(b) THEN a ELSE IF FLtV(b, a) THEN b ELSE a

FMin(a, b) == With2(a, b, FMinV)

\* the integer square root, by bisection of lo..hi
RECURSIVE ISqrtIn(_, _, _)
ISqrtIn(n, lo, hi) ==
    IF lo >= hi THEN lo
    ELSE With((lo + hi + 1) \div 2,
              LAMBDA mid : IF mid <= n \div mid THEN ISqrtIn(n, mid, hi)
                           ELSE ISqrtIn(n, lo, mid - 1))

ISqrtV(n) == ISqrtIn(n, 0, IF n < 46340 THEN n ELSE 46340)

ISqrt(n) == With(n, ISqrtV)

IsSquare(n) == n >= 0 /\ With(ISqrt(n), LAMBDA k : k * k = n)

\* a value whose square root is rational, infinite or NaN
ExactRootV(a) == a[2] = 0 \/ a[1] < 0 \/ (IsSquare(a[1]) /\ IsSquare(a[2]))

ExactRoot(a) == With(a, ExactRootV)

\* f64::sqrt, of a perfect square: no value is given to any other argument
SqrtV(a) ==
    IF IsNaN(a) THEN NaN
    ELSE IF a[2] = 0 THEN (IF a[1] > 0 THEN INFINITY ELSE NaN)
    ELSE IF a[1] < 0 THEN NaN
    ELSE CHOOSE r \in {<<ISqrt(a[1]), ISqrt(a[2])>>} : FMulV(r, r) = a

Sqrt(a) == With(a, SqrtV)

-----------------------------------------------------------------------------
(* math.rs: Vec3 and Ray                                                   *)

Vec3(vx, vy, vz) == [x |-> vx, y |-> vy, z |-> vz]

V(a, b, c) == Vec3(F(a), F(b), F(c))

zero == V(0, 0, 0)

unit_y == V(0, 1, 0)

dotV(a, b) == FAdd(FAdd(FMulV(a.x, b.x), FMulV(a.y, b.y)), FMulV(a.z, b.z))

dot(a, b) == With2(a, b, dotV)

crossV(a, b) ==
    Vec3(FSub(FMulV(a.y, b.z), FMulV(a.z, b.y)),
         FSub(FMulV(a.z, b.x), FMulV(a.x, b.z)),
         FSub(FMulV(a.x, b.y), FMulV(a.y, b.x)))

cross(a, b) == With2(a, b, crossV)

length(a) == Sqrt(dot(a, a))

VAddV(a, b) == Vec3(FAddV(a.x, b.x), FAddV(a.y, b.y), FAddV(a.z, b.z))

VAdd(a, b) == With2(a, b, VAddV)

VNegV(a) == Vec3(FNegV(a.x), FNegV(a.y), FNegV(a.z))

VNeg(a) == With(a, VNegV)

VSub(a, b) == VAdd(a, VNeg(b))

VMulV(a, s) == Vec3(FMulV(a.x, s), FMulV(a.y, s), FMulV(a.z, s))

VMul(a, s) == With2(a, s, VMulV)

VDivV(a, s) == Vec3(FDivV(a.x, s), FDivV(a.y, s), FDivV(a.z, s))

\* the derived PartialEq of Vec3
VEqV(a, b) == FEqV(a.x, b.x) /\ FEqV(a.y, b.y) /\ FEqV(a.z, b.z)

VEq(a, b) == With2(a, b, VEqV)

\* a normalize that always divides
normalizeAlways(a, len) == VDivV(a, len)

normalizeV(a, len) == IF FLtV(F(0), len) THEN VDivV(a, len) ELSE a

normalize(a) == With2(a, length(a), normalizeV)

Ray(o, d) == [origin |-> o, direction |-> d]

atV(r, t) == VAdd(r.origin, VMulV(r.direction, t))

at(r, t) == With2(r, t, atV)

-----------------------------------------------------------------------------
(* material.rs and shapes/mod.rs                                           *)

Material(albedo) ==
    [albedo |-> albedo, specular |-> F(0), shininess |-> F(1), reflectivity |-> F(0)]

with_specular(albedo, specular, shininess) ==
    [albedo |-> albedo, specular |-> specular, shininess |-> shininess, reflectivity |-> F(0)]

with_reflection(albedo, reflectivity) ==
    [albedo |-> albedo, specular |-> F(0), shininess |-> F(1), reflectivity |-> reflectivity]

None == [some |-> FALSE]

HitInfo(t, point, normal, material) ==
    [some |-> TRUE, t |-> t, point |-> point, normal |-> normal, material |-> material]

Transform(translation, scale) ==
    [translation |-> translation, rotation |-> zero, scale |-> scale]

TransformNew == Transform(zero, V(1, 1, 1))

\* the translation applied before the scale
apply_to_pointTranslateFirst(tr, p) ==
    Vec3(FMul(FAddV(p.x, tr.translation.x), tr.scale.x),
         FMul(FAddV(p.y, tr.translation.y), tr.scale.y),
         FMul(FAddV(p.z, tr.translation.z), tr.scale.z))

apply_to_pointV(tr, p) ==
    Vec3(FAdd(FMulV(p.x, tr.scale.x), tr.translation.x),
         FAdd(FMulV(p.y, tr.scale.y), tr.translation.y),
         FAdd(FMulV(p.z, tr.scale.z), tr.translation.z))

inverse_transform_rayV(tr, r) ==
    With(Vec3(FDivV(F(1), tr.scale.x), FDivV(F(1), tr.scale.y), FDivV(F(1), tr.scale.z)),
         LAMBDA inv_scale :
             Ray(Vec3(FMul(FSub(r.origin.x, tr.translation.x), inv_scale.x),
                      FMul(FSub(r.origin.y, tr.translation.y), inv_scale.y),
                      FMul(FSub(r.origin.z, tr.translation.z), inv_scale.z)),
                 Vec3(FMulV(r.direction.x, inv_scale.x),
                      FMulV(r.direction.y, inv_scale.y),
                      FMulV(r.direction.z, inv_scale.z))))

inverse_transform_ray(tr, r) == With2(tr, r, inverse_transform_rayV)

\* the forward-intersection bias 1e-4 and the parallel threshold 1e-6
EPSILON == Frac(1, 10000)

PARALLEL_EPS == Frac(1, 1000000)

-----------------------------------------------------------------------------
(* shapes/sphere.rs                                                        *)

Sphere(center, radius, material, transform) ==
    [kind |-> "sphere", center |-> center, radius |-> radius,
     material |-> material, transform |-> transform]

IsIdentity(tr) == VEq(tr.translation, zero) /\ VEq(tr.scale, V(1, 1, 1))

SphereLocalRay(s, r) ==
    IF IsIdentity(s.transform) THEN r ELSE inverse_transform_ray(s.transform, r)

\* the quadratic a t^2 + b t + c of the sphere and the object-space ray
QuadOf(a, b, c) ==
    [a |-> a, b |-> b, c |-> c, discriminant |-> FSub(FMulV(b, b), FMul(FMulV(F(4), a), c))]

SphereQuadV(s, local_ray) ==
    With(VSub(local_ray.origin, s.center),
         LAMBDA oc : With(<<dot(local_ray.direction, local_ray.direction),
                            FMul(F(2), dot(oc, local_ray.direction)),
                            FSub(dot(oc, oc), FMul(s.radius, s.radius))>>,
                          LAMBDA q : QuadOf(q[1], q[2], q[3])))

SphereQuad(s, r) == With2(s, SphereLocalRay(s, r), SphereQuadV)

\* "t1 >= 1e-4": the comparison of a root with the bias made non-strict
SphereChooseGe(t1, t2) ==
    IF FGe(t1, EPSILON) THEN t1 ELSE IF FGe(t2, EPSILON) THEN t2 ELSE NaN

\* the root chosen: NaN stands for the early return None
SphereChoose(t1, t2) ==
    IF FGt(t1, EPSILON) THEN t1 ELSE IF FGt(t2, EPSILON) THEN t2 ELSE NaN

SphereHit(s, local_ray, t) ==
    IF IsNaN(t) THEN None
    ELSE With(at(local_ray, t),
              LAMBDA hit_point :
                  HitInfo(t,
                          IF IsIdentity(s.transform) THEN hit_point
                          ELSE apply_to_pointV(s.transform, hit_point),
                          normalize(VSub(hit_point, s.center)),
                          s.material))

SphereRoots(s, local_ray, q) ==
    IF FLtV(q.discriminant, F(0)) THEN None
    ELSE With(SqrtV(q.discriminant),
              LAMBDA sqrt_discriminant :
                  With2(FDiv(FSub(FNegV(q.b), sqrt_discriminant), FMulV(F(2), q.a)),
                        FDiv(FAdd(FNegV(q.b), sqrt_discriminant), FMulV(F(2), q.a)),
                        LAMBDA t1, t2 :
                            With(SphereChoose(t1, t2), LAMBDA t : SphereHit(s, local_ray, t))))

SphereIntersect(s, r) ==
    With(SphereLocalRay(s, r),
         LAMBDA local_ray : With(SphereQuadV(s, local_ray),
                                 LAMBDA q : SphereRoots(s, local_ray, q)))

-----------------------------------------------------------------------------
(* shapes/plane.rs                                                         *)

Plane(point, normal, material) ==
    [kind |-> "plane", point |-> point, normal |-> normalize(normal),
     material |-> material, transform |-> TransformNew]

PlaneHit(p, r, t) ==
    IF FLtV(t, EPSILON) THEN None ELSE HitInfo(t, atV(r, t), p.normal, p.material)

PlaneSolve(p, r, denom) ==
    IF FLt(FAbsV(denom), PARALLEL_EPS) THEN None
    ELSE With(FDiv(dot(VSub(p.point, r.origin), p.normal), denom),
              LAMBDA t : PlaneHit(p, r, t))

PlaneIntersect(p, r) ==
    With(dot(r.direction, p.normal), LAMBDA denom : PlaneSolve(p, r, denom))

-----------------------------------------------------------------------------
(* shapes/cube.rs                                                          *)

Cube(min, max, material) ==
    [kind |-> "cube", min |-> min, max |-> max,
     material |-> material, transform |-> TransformNew]

Axis(v, i) == IF i = 0 THEN v.x ELSE IF i = 1 THEN v.y ELSE v.z

\* the faces exchanged: the max-face normal for an entry through the min face
AxisNormalSwapped(i, hit_min_face) ==
    IF i = 0 THEN (IF hit_min_face THEN V(1, 0, 0) ELSE V(-1, 0, 0))
    ELSE IF i = 1 THEN (IF hit_min_face THEN V(0, 1, 0) ELSE V(0, -1, 0))
    ELSE (IF hit_min_face THEN V(0, 0, 1) ELSE V(0, 0, -1))

AxisNormal(i, hit_min_face) ==
    IF i = 0 THEN (IF hit_min_face THEN V(-1, 0, 0) ELSE V(1, 0, 0))
    ELSE IF i = 1 THEN (IF hit_min_face THEN V(0, -1, 0) ELSE V(0, 1, 0))
    ELSE (IF hit_min_face THEN V(0, 0, -1) ELSE V(0, 0, 1))

\* the slab state after an axis that is not parallel: t1, t2 are its two crossings
CubeUpdate(st, i, t1, t2) ==
    With2(IF FLtV(t1, t2) THEN t1 ELSE t2, IF FLtV(t1, t2) THEN t2 ELSE t1,
          LAMBDA t_near, t_far :
              With2(IF FLtV(st.t_min, t_near) THEN t_near ELSE st.t_min,
                    IF FLtV(t_far, st.t_max) THEN t_far ELSE st.t_max,
                    LAMBDA t_min, t_max :
                        [miss |-> FLtV(t_max, t_min), t_min |-> t_min, t_max |-> t_max,
                         normal |-> IF FLtV(st.t_min, t_near)
                                    THEN AxisNormal(i, FLtV(t1, t2)) ELSE st.normal]))

\* one pass of the loop over the slabs; st.miss records the early return None
CubeSlabV(c, r, i, st) ==
    IF st.miss THEN st
    ELSE IF FLt(FAbsV(Axis(r.direction, i)), PARALLEL_EPS)
    THEN IF FLtV(Axis(r.origin, i), Axis(c.min, i)) \/ FLtV(Axis(c.max, i), Axis(r.origin, i))
         THEN [st EXCEPT !.miss = TRUE]
         ELSE st
    ELSE With2(FDiv(FSub(Axis(c.min, i), Axis(r.origin, i)), Axis(r.direction, i)),
               FDiv(FSub(Axis(c.max, i), Axis(r.origin, i)), Axis(r.direction, i)),
               LAMBDA t1, t2 : CubeUpdate(st, i, t1, t2))

CubeSlab(c, r, i, st) == With(st, LAMBDA sv : CubeSlabV(c, r, i, sv))

CubeSlabs(c, r) ==
    CubeSlab(c, r, 2, CubeSlab(c, r, 1, CubeSlab(c, r, 0,
        [miss |-> FALSE, t_min |-> NEG_INFINITY, t_max |-> INFINITY, normal |-> zero])))

CubeChoose(c, r, st) ==
    IF st.miss THEN None
    ELSE IF FLtV(EPSILON, st.t_min)
         THEN HitInfo(st.t_min, atV(r, st.t_min), st.normal, c.material)
    ELSE IF FLtV(EPSILON, st.t_max)
         THEN HitInfo(st.t_max, atV(r, st.t_max), st.normal, c.material)
    ELSE None

CubeIntersect(c, r) == With(CubeSlabs(c, r), LAMBDA st : CubeChoose(c, r, st))

-----------------------------------------------------------------------------
(* shapes/cylinder.rs                                                      *)

Cylinder(center, radius, h, material) ==
    [kind |-> "cylinder", center |-> center, radius |-> radius, height |-> h,
     material |-> material, transform |-> TransformNew]

CylQuadV(c, r) ==
    With(VSub(r.origin, c.center),
         LAMBDA oc :
             With(<<FAdd(FMulV(r.direction.x, r.direction.x), FMulV(r.direction.z, r.direction.z)),
                    FMul(F(2), FAdd(FMulV(oc.x, r.direction.x), FMulV(oc.z, r.direction.z))),
                    FSub(FAdd(FMulV(oc.x, oc.x), FMulV(oc.z, oc.z)), FMulV(c.radius, c.radius))>>,
                  LAMBDA q : QuadOf(q[1], q[2], q[3])))

CylQuad(c, r) == With2(c, r, CylQuadV)

CapYTop(c) == FAdd(c.center.y, FDiv(c.height, F(2)))

CapYBottom(c) == FSub(c.center.y, FDiv(c.height, F(2)))

\* the comparison with the closest candidate so far left out
CylCloserAlways(closest, t) == TRUE

\* closest is [t, normal]; t = NaN stands for closest_t = None
CylCloser(closest, t) == IsNaN(closest.t) \/ FLtV(t, closest.t)

WallNormal(c, hit_point) ==
    normalize(Vec3(FDiv(FSub(hit_point.x, c.center.x), c.radius),
                   F(0),
                   FDiv(FSub(hit_point.z, c.center.z), c.radius)))

CylWallAt(c, closest, t, hit_point) ==
    IF FGe(hit_point.y, CapYBottom(c)) /\ FLe(hit_point.y, CapYTop(c)) /\ CylCloser(closest, t)
    THEN [t |-> t, normal |-> WallNormal(c, hit_point)]
    ELSE closest

\* one pass of the loop over the wall roots
CylWallV(c, r, t, closest) ==
    IF ~FLtV(EPSILON, t) THEN closest
    ELSE With(atV(r, t), LAMBDA hit_point : CylWallAt(c, closest, t, hit_point))

CylWall(c, r, t, closest) == With(closest, LAMBDA cv : CylWallV(c, r, t, cv))

CylCapAt(c, cap_y, closest, t, hit_point) ==
    With2(FSub(hit_point.x, c.center.x), FSub(hit_point.z, c.center.z),
          LAMBDA dx, dz :
              IF FLe(FAdd(FMulV(dx, dx), FMulV(dz, dz)), FMulV(c.radius, c.radius))
                 /\ CylCloser(closest, t)
              THEN [t |-> t, normal |-> IF FEq(cap_y, CapYTop(c)) THEN unit_y ELSE VNeg(unit_y)]
              ELSE closest)

CylCapT(c, r, cap_y, closest, t) ==
    IF ~FLtV(EPSILON, t) THEN closest
    ELSE With(atV(r, t), LAMBDA hit_point : CylCapAt(c, cap_y, closest, t, hit_point))

\* one pass of the loop over the caps
CylCapV(c, r, cap_y, closest) ==
    IF ~FLt(PARALLEL_EPS, FAbsV(r.direction.y)) THEN closest
    ELSE With(FDiv(FSub(cap_y, r.origin.y), r.direction.y),
              LAMBDA t : CylCapT(c, r, cap_y, closest, t))

CylCap(c, r, cap_y, closest) == With2(cap_y, closest, LAMBDA yv, cv : CylCapV(c, r, yv, cv))

CylCandidates(c, r, t1, t2) ==
    CylCap(c, r, CapYBottom(c),
        CylCap(c, r, CapYTop(c),
            CylWall(c, r, t2,
                CylWall(c, r, t1, [t |-> NaN, normal |-> zero]))))

CylResult(c, r, closest) ==
    IF IsNaN(closest.t) THEN None
    ELSE HitInfo(closest.t, atV(r, closest.t), closest.normal, c.material)

\* a return on a discriminant that is negative or zero
CylRootsPositive(c, r, q) ==
    IF FLeV(q.discriminant, F(0)) THEN None
    ELSE With(SqrtV(q.discriminant),
              LAMBDA sqrt_discriminant :
                  With2(FDiv(FSub(FNegV(q.b), sqrt_discriminant), FMulV(F(2), q.a)),
                        FDiv(FAdd(FNegV(q.b), sqrt_discriminant), FMulV(F(2), q.a)),
                        LAMBDA t1, t2 :
                            With(CylCandidates(c, r, t1, t2),
                                 LAMBDA closest : CylResult(c, r, closest))))

CylRoots(c, r, q) ==
    IF FLtV(q.discriminant, F(0)) THEN None
    ELSE With(SqrtV(q.discriminant),
              LAMBDA sqrt_discriminant :
                  With2(FDiv(FSub(FNegV(q.b), sqrt_discriminant), FMulV(F(2), q.a)),
                        FDiv(FAdd(FNegV(q.b), sqrt_discriminant), FMulV(F(2), q.a)),
                        LAMBDA t1, t2 :
                            With(CylCandidates(c, r, t1, t2),
                                 LAMBDA closest : CylResult(c, r, closest))))

CylinderIntersect(c, r) == With(CylQuadV(c, r), LAMBDA q : CylRoots(c, r, q))

\* the dynamic dispatch of Intersectable::intersect
IntersectV(p, r) ==
    CASE p.kind = "sphere"   -> SphereIntersect(p, r)
      [] p.kind = "plane"    -> PlaneIntersect(p, r)
      [] p.kind = "cube"     -> CubeIntersect(p, r)
      [] p.kind = "cylinder" -> CylinderIntersect(p, r)

Intersect(p, r) == With2(p, r, IntersectV)

-----------------------------------------------------------------------------
(* Inputs of the intersection routines                                     *)

\* ray origins lie on the integer grid -MaxCoord..MaxCoord in each axis
MaxCoord == 1

Grid == (-MaxCoord)..MaxCoord

Origins == {V(a, b, c) : a \in Grid, b \in Grid, c \in Grid}

\* directions of the unit grid, the zero direction among them
GridDirs == {V(a, b, c) : a \in -1..1, b \in -1..1, c \in -1..1}

red == Material(Vec3(Frac(8, 10), Frac(2, 10), Frac(2, 10)))

green == Material(Vec3(Frac(2, 10), Frac(8, 10), Frac(2, 10)))

blue == Material(Vec3(Frac(2, 10), Frac(2, 10), Frac(8, 10)))

gray == Material(Vec3(Frac(5, 10), Frac(5, 10), Frac(5, 10)))

\* Sphere::new (identity placement) and Sphere::with_transform
Spheres ==
    { Sphere(zero, F(1), red, TransformNew),
      Sphere(zero, Frac(99, 100), red, TransformNew),
      Sphere(zero, Frac(1, 2), green, Transform(V(1, 0, 0), V(2, 2, 2))) }

\* long directions bring the first root to 1e-4 and below it
SphereDirs == GridDirs \cup {V(0, 0, -50), V(0, 0, -100), V(0, 0, -200)}

Planes ==
    { Plane(V(0, -1, 0), unit_y, gray),
      Plane(zero, V(0, 0, 2), gray),
      Plane(zero, V(3, 4, 0), blue) }

\* long directions bring t to 1e-4 and below it; short ones bring the
\* denominator to 1e-6 and below it
PlaneDirs ==
    GridDirs \cup {V(0, -5000, 0), V(0, -10000, 0), V(0, -20000, 0),
                   Vec3(F(0), Frac(-1, 1000000), F(0)),
                   Vec3(F(0), Frac(-1, 10000000), F(0)),
                   Vec3(F(0), F(0), Frac(1, 1000000))}

Cubes ==
    { Cube(Vec3(Frac(-1, 2), Frac(-1, 2), Frac(-1, 2)), Vec3(Frac(1, 2), Frac(1, 2), Frac(1, 2)), blue),
      Cube(Vec3(F(-1), F(-1), Frac(-1, 2)), Vec3(F(1), F(1), Frac(1, 2)), red) }

CubeDirs ==
    GridDirs \cup {V(0, 0, -2500), V(0, 0, -5000), V(0, 0, -10000),
                   Vec3(Frac(1, 10000000), F(0), F(-1)),
                   Vec3(Frac(1, 1000000), F(0), F(-1)),
                   Vec3(Frac(1, 10000000), Frac(-1, 10000000), F(0))}

Cylinders ==
    { Cylinder(zero, F(1), F(2), green),
      Cylinder(zero, Frac(99, 100), F(1), green) }

CylinderDirs ==
    GridDirs \cup {V(0, -5000, 0), V(0, -10000, 0), V(-50, 0, 0), V(-100, 0, 0),
                   Vec3(F(1), Frac(1, 10000000), F(0)),
                   Vec3(F(0), Frac(-1, 500000), F(0))}

Rays(dirs) == {Ray(o, d) : o \in Origins, d \in dirs}

\* the rays whose quadratic has a rational root (or none)
SphereRays(s) == {r \in Rays(SphereDirs) : ExactRoot(SphereQuad(s, r).discriminant)}

CylinderRays(c) == {r \in Rays(CylinderDirs) : ExactRoot(CylQuad(c, r).discriminant)}

-----------------------------------------------------------------------------
(* SpecShapes: one call of a primitive's intersect on one ray              *)

Unused == "unused"

\* outside main: no arguments, no output file, no standard output, nothing
\* returned, no write attempted; no nearest-hit query made yet
IdleMain ==
    /\ args = Unused /\ file = Unused /\ stdout = Unused /\ returned = Unused
    /\ queries = <<>> /\ attempts = 0

IdleRender ==
    /\ width = 0 /\ height = 0 /\ camera = Unused /\ x = 0 /\ y = 0
    /\ writer = Unused /\ traced = <<>> /\ written = <<>> /\ output = Unused
    /\ IdleMain

IdleTrace == color = zero /\ light_index = 0 /\ contrib = <<>>

InitShapes ==
    /\ pc = "call"
    /\ \/ prim \in Spheres /\ ray \in SphereRays(prim)
       \/ prim \in Planes /\ ray \in Rays(PlaneDirs)
       \/ prim \in Cubes /\ ray \in Rays(CubeDirs)
       \/ prim \in Cylinders /\ ray \in CylinderRays(prim)
    /\ hit = None
    /\ scene = Unused
    /\ IdleTrace
    /\ IdleRender

Return(h) ==
    /\ hit' = h
    /\ pc' = "done"
    /\ UNCHANGED <<prim, ray, scene, color, light_index, contrib,
                   width, height, camera, x, y, writer, traced, written, output,
                   args, file, stdout, returned, queries, attempts>>

CallSphereIntersect == pc = "call" /\ prim.kind = "sphere" /\ Return(SphereIntersect(prim, ray))

CallPlaneIntersect == pc = "call" /\ prim.kind = "plane" /\ Return(PlaneIntersect(prim, ray))

CallCubeIntersect == pc = "call" /\ prim.kind = "cube" /\ Return(CubeIntersect(prim, ray))

CallCylinderIntersect == pc = "call" /\ prim.kind = "cylinder" /\ Return(CylinderIntersect(prim, ray))

NextShapes ==
    \/ CallSphereIntersect
    \/ CallPlaneIntersect
    \/ CallCubeIntersect
    \/ CallCylinderIntersect

SpecShapes == InitShapes /\ [][NextShapes]_vars

-----------------------------------------------------------------------------
(* Properties of the primitives, under SpecShapes                          *)

Returned(kind) == pc = "done" /\ prim.kind = kind

\* ---- Plane ----

PlaneDenom == dot(ray.direction, prim.normal)

PlaneT == FDiv(dot(VSub(prim.point, ray.origin), prim.normal), PlaneDenom)

\* C2: Plane.intersect returns a hit exactly when |direction.normal| >= 1e-6
\* and t = (point - origin).normal / (direction.normal) > 1e-4 (t = 1e-4 and
\* below: no hit); a hit carries that t, origin + t direction, and the stored
\* normal.
C2_PlaneContract ==
    Returned("plane") =>
        /\ hit.some <=> (FGe(FAbs(PlaneDenom), PARALLEL_EPS) /\ FGt(PlaneT, EPSILON))
        /\ hit.some => /\ hit.t = PlaneT
                       /\ hit.point = at(ray, PlaneT)
                       /\ hit.normal = prim.normal

\* the case that decides C2: the plane is crossed at t = 1e-4 exactly
C2_AtEpsilon ==
    Returned("plane") /\ FGe(FAbs(PlaneDenom), PARALLEL_EPS) /\ PlaneT = EPSILON

\* ---- Sphere ----

SQ == SphereQuad(prim, ray)

SphereT1 == FDiv(FSub(FNeg(SQ.b), Sqrt(SQ.discriminant)), FMul(F(2), SQ.a))

SphereT2 == FDiv(FAdd(FNeg(SQ.b), Sqrt(SQ.discriminant)), FMul(F(2), SQ.a))

\* the object-space image of a world-space point
SphereLocalPoint(p) == SphereLocalRay(prim, Ray(p, zero)).origin

OnSphere(p) ==
    With(VSub(SphereLocalPoint(p), prim.center),
         LAMBDA v : dot(v, v) = FMul(prim.radius, prim.radius))

\* the origin is outside the sphere; the ray moves towards it and its line
\* meets it; the ray moves away from it
SphereOutside == FGt(SQ.c, F(0))

SphereAimedAt == FLt(SQ.b, F(0)) /\ FGe(SQ.discriminant, F(0))

SphereAimedAway == FGt(SQ.b, F(0))

SphereRootRule ==
    IF FLt(SQ.discriminant, F(0)) THEN ~hit.some
    ELSE IF FGt(SphereT1, EPSILON) THEN hit.some /\ hit.t = SphereT1
    ELSE IF FGt(SphereT2, EPSILON) THEN hit.some /\ hit.t = SphereT2
    ELSE ~hit.some

\* C3 as stated: the root rule, and from outside a ray aimed at the sphere
\* returns the first crossing, on the surface; a ray aimed away returns no hit.
C3_Original ==
    Returned("sphere") =>
        /\ SphereRootRule
        /\ (SphereOutside /\ SphereAimedAt) =>
               hit.some /\ hit.t = SphereT1 /\ OnSphere(hit.point)
        /\ (SphereOutside /\ SphereAimedAway) => ~hit.some

\* C3 amended: the first crossing is returned when its t exceeds 1e-4; every
\* hit point returned lies on the sphere.
C3_SphereContract ==
    Returned("sphere") =>
        /\ SphereRootRule
        /\ (SphereOutside /\ SphereAimedAt /\ FGt(SphereT1, EPSILON)) =>
               hit.some /\ hit.t = SphereT1
        /\ hit.some => OnSphere(hit.point)
        /\ (SphereOutside /\ SphereAimedAway) => ~hit.some

\* a ray from outside, aimed at the sphere, whose first crossing is at 1e-4
\* exactly: the second crossing is returned
C3_Witness ==
    /\ Returned("sphere") /\ SphereOutside /\ SphereAimedAt
    /\ SphereT1 = EPSILON /\ hit.some /\ hit.t = SphereT2

\* ---- Box ----

CubeParallel(i) == FLt(FAbs(Axis(ray.direction, i)), PARALLEL_EPS)

CubeAxes == {i \in 0..2 : ~CubeParallel(i)}

CubeParallelMiss ==
    \E i \in 0..2 : /\ CubeParallel(i)
                    /\ \/ FLt(Axis(ray.origin, i), Axis(prim.min, i))
                       \/ FGt(Axis(ray.origin, i), Axis(prim.max, i))

CubeT1(i) == FDiv(FSub(Axis(prim.min, i), Axis(ray.origin, i)), Axis(ray.direction, i))

CubeT2(i) == FDiv(FSub(Axis(prim.max, i), Axis(ray.origin, i)), Axis(ray.direction, i))

CubeEntry(i) == FMin(CubeT1(i), CubeT2(i))

CubeExit(i) == FMax(CubeT1(i), CubeT2(i))

\* the latest entry and the earliest exit over the axes that are not parallel
IsLatestEntry(t) ==
    /\ \E i \in CubeAxes : CubeEntry(i) = t
    /\ \A i \in CubeAxes : FLe(CubeEntry(i), t)

IsEarliestExit(t) ==
    /\ \E i \in CubeAxes : CubeExit(i) = t
    /\ \A i \in CubeAxes : FGe(CubeExit(i), t)

CubeOverlap ==
    \E i \in CubeAxes, j \in CubeAxes :
        /\ IsLatestEntry(CubeEntry(i)) /\ IsEarliestExit(CubeExit(j))
        /\ FLe(CubeEntry(i), CubeExit(j))

CubeDisjoint ==
    \E i \in CubeAxes, j \in CubeAxes : FGt(CubeEntry(i), CubeExit(j))

\* slabs overlapping in front of the origin: the latest entry is beyond the bias
CubeAhead ==
    /\ ~CubeParallelMiss /\ CubeOverlap
    /\ \E i \in CubeAxes : IsLatestEntry(CubeEntry(i)) /\ FGt(CubeEntry(i), EPSILON)

CubeOutside ==
    \E i \in 0..2 : \/ FLt(Axis(ray.origin, i), Axis(prim.min, i))
                    \/ FGt(Axis(ray.origin, i), Axis(prim.max, i))

InSlab(p, i) == FGe(Axis(p, i), Axis(prim.min, i)) /\ FLe(Axis(p, i), Axis(prim.max, i))

OnFacePlane(p, i) == Axis(p, i) = Axis(prim.min, i) \/ Axis(p, i) = Axis(prim.max, i)

OnBoxSurface(p) == (\A i \in 0..2 : InSlab(p, i)) /\ (\E i \in 0..2 : OnFacePlane(p, i))

\* the unit vector of axis i, signed against the ray's direction on that axis
EntryNormal(i) ==
    With(IF FGt(Axis(ray.direction, i), F(0)) THEN -1 ELSE 1,
         LAMBDA sgn : IF i = 0 THEN V(sgn, 0, 0) ELSE IF i = 1 THEN V(0, sgn, 0) ELSE V(0, 0, sgn))

CubeEntryHit ==
    /\ hit.some
    /\ IsLatestEntry(hit.t)
    /\ hit.point = at(ray, hit.t)
    /\ \E i \in CubeAxes : CubeEntry(i) = hit.t /\ hit.normal = EntryNormal(i)
    /\ FLt(dot(hit.normal, ray.direction), F(0))

CubeMissRule == (CubeParallelMiss \/ CubeDisjoint) => ~hit.some

\* C4 as stated: the entry hit, with its point on the box surface
C4_Original ==
    Returned("cube") =>
        /\ (CubeOutside /\ CubeAhead) => CubeEntryHit /\ OnBoxSurface(hit.point)
        /\ CubeMissRule

\* direction components below 1e-6 in magnitude are all exactly zero
NoNearParallel == \A i \in 0..2 : CubeParallel(i) => Axis(ray.direction, i) = F(0)

\* C4 amended: the point is on the plane of the entered face and inside the
\* slab of every axis that is not parallel; it is on the box surface when every
\* component treated as parallel is exactly zero.
C4_CubeContract ==
    Returned("cube") =>
        /\ (CubeOutside /\ CubeAhead) =>
               /\ CubeEntryHit
               /\ \E i \in CubeAxes : CubeEntry(i) = hit.t /\ OnFacePlane(hit.point, i)
               /\ \A i \in CubeAxes : InSlab(hit.point, i)
               /\ NoNearParallel => OnBoxSurface(hit.point)
        /\ CubeMissRule

\* an entry hit by a ray with a non-zero component below 1e-6
C4_Witness ==
    /\ Returned("cube") /\ CubeOutside /\ CubeAhead /\ hit.some
    /\ ~NoNearParallel /\ ~OnBoxSurface(hit.point)

\* ---- Cylinder ----

CQ == CylQuad(prim, ray)

CylRootSet ==
    IF FGe(CQ.discriminant, F(0))
    THEN {FDiv(FSub(FNeg(CQ.b), Sqrt(CQ.discriminant)), FMul(F(2), CQ.a)),
          FDiv(FAdd(FNeg(CQ.b), Sqrt(CQ.discriminant)), FMul(F(2), CQ.a))}
    ELSE {}

RadialNormal(p) ==
    Vec3(FDiv(FSub(p.x, prim.center.x), prim.radius), F(0),
         FDiv(FSub(p.z, prim.center.z), prim.radius))

WallCandidates ==
    {<<t, RadialNormal(at(ray, t))>> :
        t \in {u \in CylRootSet :
                 /\ FGt(u, EPSILON)
                 /\ FGe(at(ray, u).y, FSub(prim.center.y, FDiv(prim.height, F(2))))
                 /\ FLe(at(ray, u).y, FAdd(prim.center.y, FDiv(prim.height, F(2))))}}

WithinRadius(p) ==
    With2(FSub(p.x, prim.center.x), FSub(p.z, prim.center.z),
          LAMBDA dx, dz : FLe(FAdd(FMul(dx, dx), FMul(dz, dz)), FMul(prim.radius, prim.radius)))

CapT(cap_y) == FDiv(FSub(cap_y, ray.origin.y), ray.direction.y)

CapCandidates ==
    IF FGt(FAbs(ray.direction.y), PARALLEL_EPS)
    THEN {<<CapT(c[1]), c[2]>> :
            c \in {d \in {<<FAdd(prim.center.y, FDiv(prim.height, F(2))), V(0, 1, 0)>>,
                          <<FSub(prim.center.y, FDiv(prim.height, F(2))), V(0, -1, 0)>>} :
                     FGt(CapT(d[1]), EPSILON) /\ WithinRadius(at(ray, CapT(d[1])))}}
    ELSE {}

CylCands == WallCandidates \cup CapCandidates

-----------------------------------------------------------------------------
(* scene.rs: lights, the scene and its nearest-hit query                   *)

Light(position, intensity, c) == [position |-> position, intensity |-> intensity, color |-> c]

white_light(position, intensity) == Light(position, intensity, V(1, 1, 1))

Scene(objects, lights, background_color) ==
    [objects |-> objects, lights |-> lights, background_color |-> background_color]

\* the background of Scene::new and the one main gives to scenes 1 to 4
SkyBlue == Vec3(Frac(2, 10), Frac(3, 10), Frac(5, 10))

LightBlue == Vec3(Frac(5, 10), Frac(7, 10), F(1))

\* one turn of the loop: the hit replaces the closest one when its t is
\* smaller
SceneCloser(closest, h) ==
    IF h.some /\ FLtV(h.t, closest.closest_t)
    THEN [closest_hit |-> h, closest_t |-> h.t]
    ELSE closest

RECURSIVE SceneLoop(_, _, _, _)
SceneLoop(objects, r, i, closest) ==
    IF i > Len(objects) THEN closest.closest_hit
    ELSE With(IntersectV(objects[i], r),
              LAMBDA h : With(SceneCloser(closest, h),
                              LAMBDA c : SceneLoop(objects, r, i + 1, c)))

SceneIntersectV(objects, r) ==
    SceneLoop(objects, r, 1, [closest_hit |-> None, closest_t |-> INFINITY])

SceneIntersect(s, r) == With2(s.objects, r, SceneIntersectV)

-----------------------------------------------------------------------------
(* SpecScene: one nearest-hit query of a scene                             *)

\* the number of objects of a scene
MaxObjects == 2

\* two spheres in the same place with different materials, a floor, a box
SceneObjects ==
    { Sphere(zero, F(1), red, TransformNew),
      Sphere(zero, F(1), green, TransformNew),
      Plane(V(0, -1, 0), unit_y, gray),
      Cube(Vec3(Frac(-1, 2), Frac(-1, 2), Frac(-1, 2)), Vec3(Frac(1, 2), Frac(1, 2), Frac(1, 2)), blue) }

\* the sequences of at most n distinct elements of S
SeqsUpTo(S, n) ==
    {q \in UNION {[1..k -> S] : k \in 0..n} : \A i, j \in 1..Len(q) : q[i] = q[j] => i = j}

\* the rays whose quadratics, against every object, have rational roots
RayExact(objects, r) ==
    \A i \in 1..Len(objects) :
        CASE objects[i].kind = "sphere"   -> ExactRoot(SphereQuad(objects[i], r).discriminant)
          [] objects[i].kind = "cylinder" -> ExactRoot(CylQuad(objects[i], r).discriminant)
          [] OTHER -> TRUE

InitScene ==
    /\ pc = "call"
    /\ prim = Unused
    /\ \E objects \in SeqsUpTo(SceneObjects, MaxObjects) :
           /\ scene = Scene(objects, <<>>, SkyBlue)
           /\ ray \in {r \in Rays(GridDirs) : RayExact(objects, r)}
    /\ hit = None
    /\ IdleTrace
    /\ IdleRender

CallSceneIntersect ==
    /\ pc = "call"
    /\ hit' = SceneIntersect(scene, ray)
    /\ pc' = "done"
    /\ UNCHANGED <<prim, ray, scene, color, light_index, contrib,
                   width, height, camera, x, y, writer, traced, written, output,
                   args, file, stdout, returned, queries, attempts>>

NextScene == CallSceneIntersect

SpecScene == InitScene /\ [][NextScene]_vars

\* the objects that report a hit for the ray
Reporting == {i \in 1..Len(scene.objects) : Intersect(scene.objects[i], ray).some}

ReportedT(i) == Intersect(scene.objects[i], ray).t

\* C1: Scene.intersect returns no hit exactly when no primitive reports one;
\* otherwise the hit of smallest t, and among equal smallest t that of the
\* primitive added first.
C1_SceneNearest ==
    pc = "done" =>
        /\ ~hit.some <=> Reporting = {}
        /\ hit.some =>
               \E i \in Reporting :
                   /\ hit = Intersect(scene.objects[i], ray)
                   /\ \A j \in Reporting :
                          /\ FLe(ReportedT(i), ReportedT(j))
                          /\ ReportedT(j) = ReportedT(i) => i <= j

-----------------------------------------------------------------------------
(* camera.rs                                                               *)

\* tan(fov / 2) of a vertical field of view in degrees, for the angles whose
\* tangent is rational
HalfHeight(fov) == CASE fov = 90 -> F(1) [] fov = 0 -> F(0)

CameraBasis(look_from, half_width, half_height, w, u) ==
    With(cross(w, u),
         LAMBDA v :
             [origin |-> look_from,
              lower_left_corner |->
                  VSub(VSub(VSub(look_from, VMul(u, half_width)), VMul(v, half_height)), w),
              horizontal |-> VMul(u, FMul(F(2), half_width)),
              vertical |-> VMul(v, FMul(F(2), half_height))])

CameraNew(look_from, look_at, up, fov, aspect_ratio) ==
    With2(HalfHeight(fov), normalize(VSub(look_from, look_at)),
          LAMBDA half_height, w :
              With2(FMul(aspect_ratio, half_height), normalize(cross(up, w)),
                    LAMBDA half_width, u : CameraBasis(look_from, half_width, half_height, w, u)))

get_rayV(cam, u, v) ==
    Ray(cam.origin,
        VSub(VAdd(VAdd(cam.lower_left_corner, VMulV(cam.horizontal, u)), VMulV(cam.vertical, v)),
             cam.origin))

get_ray(cam, u, v) == With2(u, v, LAMBDA a, b : With(cam, LAMBDA c : get_rayV(c, a, b)))

-----------------------------------------------------------------------------
(* render.rs: trace_ray                                                    *)

max_depth == 10

\* a shadow test that never holds
InShadowNever(shadow_hit, light_distance) == FALSE

\* the shadow test of one light: something is hit before the light
InShadow(shadow_hit, light_distance) ==
    shadow_hit.some /\ FLt(shadow_hit.t, FSub(light_distance, EPSILON))

\* the contribution without the diffuse factor
LightContributionNoDiffuse(h, light, light_intensity) ==
    VMul(Vec3(FMul(h.material.albedo.x, light.color.x),
              FMul(h.material.albedo.y, light.color.y),
              FMul(h.material.albedo.z, light.color.z)),
         light.intensity)

LightContribution(h, light, light_intensity) ==
    VMul(VMul(Vec3(FMul(h.material.albedo.x, light.color.x),
                   FMul(h.material.albedo.y, light.color.y),
                   FMul(h.material.albedo.z, light.color.z)),
              light.intensity),
         light_intensity)

\* the light is added unless the shadow ray meets something before it
ShadeLit(s, h, light, c, light_dir, light_distance, light_intensity) ==
    With(SceneIntersect(s, Ray(VAdd(h.point, VMul(h.normal, EPSILON)), light_dir)),
         LAMBDA shadow_hit :
             IF InShadow(shadow_hit, light_distance) THEN c
             ELSE VAdd(c, LightContribution(h, light, light_intensity)))

\* the body of the loop over the lights: the colour after one light
ShadeLightV(s, h, light, c) ==
    With2(normalize(VSub(light.position, h.point)), length(VSub(light.position, h.point)),
          LAMBDA light_dir, light_distance :
              With(FMax(dot(h.normal, light_dir), F(0)),
                   LAMBDA light_intensity :
                       IF FGt(light_intensity, F(0))
                       THEN ShadeLit(s, h, light, c, light_dir, light_distance, light_intensity)
                       ELSE c))

ShadeLight(s, h, light, c) ==
    With2(s, h, LAMBDA s1, h1 : With2(light, c, LAMBDA l1, c1 : ShadeLightV(s1, h1, l1, c1)))

\* an ambient term that grows with the reflectivity
AmbientReflective(h) ==
    Vec3(FMul(h.material.albedo.x, FAdd(Frac(1, 10), h.material.reflectivity)),
         FMul(h.material.albedo.y, FAdd(Frac(1, 10), h.material.reflectivity)),
         FMul(h.material.albedo.z, FAdd(Frac(1, 10), h.material.reflectivity)))

Ambient(h) ==
    Vec3(FMul(h.material.albedo.x, Frac(1, 10)),
         FMul(h.material.albedo.y, Frac(1, 10)),
         FMul(h.material.albedo.z, Frac(1, 10)))

\* the background at half its brightness
MissDimmed(s) == VMul(s.background_color, Frac(1, 2))

Miss(s) == s.background_color

RECURSIVE ShadeLoop(_, _, _, _)
ShadeLoop(s, h, i, c) ==
    IF i > Len(s.lights) THEN c
    ELSE With(ShadeLightV(s, h, s.lights[i], c), LAMBDA c1 : ShadeLoop(s, h, i + 1, c1))

TraceHit(s, h) ==
    IF h.some THEN With(ShadeLoop(s, h, 1, zero), LAMBDA c : VAdd(c, Ambient(h)))
    ELSE Miss(s)

trace_ray(r, s, depth) ==
    IF depth >= max_depth THEN zero
    ELSE With2(r, s, LAMBDA r1, s1 : With(SceneIntersect(s1, r1), LAMBDA h : TraceHit(s1, h)))

\* the nearest-hit query of a shadow ray made whatever the diffuse factor
ShadowQueryAlways(h, light, i) ==
    <<[op |-> "intersect", for |-> "shadow", light |-> i,
       ray |-> Ray(VAdd(h.point, VMul(h.normal, EPSILON)),
                   normalize(VSub(light.position, h.point)))]>>

\* the nearest-hit query that the loop body makes for light i, if any
ShadowQuery(h, light, i) ==
    With(normalize(VSub(light.position, h.point)),
         LAMBDA light_dir :
             IF FGt(FMax(dot(h.normal, light_dir), F(0)), F(0))
             THEN <<[op |-> "intersect", for |-> "shadow", light |-> i,
                     ray |-> Ray(VAdd(h.point, VMul(h.normal, EPSILON)), light_dir)]>>
             ELSE <<>>)

RECURSIVE ShadowQueries(_, _, _)
ShadowQueries(s, h, i) ==
    IF i > Len(s.lights) THEN <<>>
    ELSE With(ShadowQuery(h, s.lights[i], i), LAMBDA q : q \o ShadowQueries(s, h, i + 1))

\* the calls that trace_ray(r, s, depth) makes, in order: its own entry, the
\* nearest-hit query of the ray and those of the shadow rays
TraceQueries(r, s, depth) ==
    <<[op |-> "trace_ray", depth |-> depth]>> \o
    (IF depth >= max_depth THEN <<>>
     ELSE <<[op |-> "intersect", for |-> "primary", ray |-> r]>> \o
          With(SceneIntersect(s, r),
               LAMBDA h : IF h.some THEN ShadowQueries(s, h, 1) ELSE <<>>))

-----------------------------------------------------------------------------
(* SpecTrace: trace_ray on one primary ray, light by light                 *)

\* the number of lights of a scene
MaxLights == 2

\* the camera of main's scene 1, with a field of view of 90 degrees and a
\* square image
TraceCamera == CameraNew(zero, V(0, 0, -1), unit_y, 90, F(1))

ScreenCoords == {F(0), Frac(1, 4), Frac(1, 2), Frac(3, 4)}

PrimaryRays == {get_ray(TraceCamera, u, v) : u \in ScreenCoords, v \in ScreenCoords}

\* a floor, a box above it, a ceiling through the first light
Floor == Plane(V(0, -1, 0), unit_y, gray)

Box == Cube(Vec3(Frac(-1, 8), Frac(-3, 4), Frac(-5, 4)), Vec3(Frac(1, 8), Frac(-1, 4), Frac(-7, 8)), red)

Ceiling == Plane(V(0, 1, 0), unit_y, blue)

\* a ball in front of the camera and a pane behind the camera
Ball == Sphere(V(0, 0, -3), F(1), green, TransformNew)

Pane == Cube(Vec3(F(-1), F(-1), Frac(1, 4)), Vec3(F(1), F(1), Frac(1, 2)), blue)

\* above the floor, to its side, below it
FloorLights ==
    { white_light(V(0, 1, -1), F(2)),
      Light(V(3, 3, -1), Frac(3, 5), Vec3(F(1), Frac(1, 2), F(0))),
      white_light(V(0, -3, -1), F(1)) }

\* behind the camera and behind the ball
BallLights == { white_light(V(0, 0, 1), F(2)), white_light(V(0, 0, -6), Frac(4, 5)) }

TraceScenes ==
    {Scene(o, l, b) : o \in SeqsUpTo({Floor, Box, Ceiling}, MaxObjects),
                      l \in SeqsUpTo(FloorLights, MaxLights),
                      b \in {SkyBlue, LightBlue}}
    \cup
    {Scene(o, l, b) : o \in SeqsUpTo({Ball, Pane, Floor}, MaxObjects),
                      l \in SeqsUpTo(BallLights, MaxLights),
                      b \in {SkyBlue, LightBlue}}

\* the light's distance from the hit point is rational, and so are the roots
\* met by its shadow ray when one is cast
LightExact(s, h, light) ==
    With(VSub(light.position, h.point),
         LAMBDA lv :
             /\ ExactRoot(dot(lv, lv))
             /\ With(normalize(lv),
                     LAMBDA light_dir :
                         FGt(FMax(dot(h.normal, light_dir), F(0)), F(0)) =>
                             RayExact(s.objects,
                                      Ray(VAdd(h.point, VMul(h.normal, EPSILON)), light_dir))))

TraceExact(s, r) ==
    /\ RayExact(s.objects, r)
    /\ With(SceneIntersect(s, r),
            LAMBDA h : h.some => \A i \in 1..Len(s.lights) : LightExact(s, h, s.lights[i]))

InitTrace ==
    /\ pc = "trace"
    /\ prim = Unused
    /\ scene \in TraceScenes
    /\ ray \in {r \in PrimaryRays : TraceExact(scene, r)}
    /\ hit = None
    /\ IdleTrace
    /\ IdleRender

\* the depth test and the nearest-hit query of the primary ray
EnterTrace ==
    /\ pc = "trace"
    /\ 0 < max_depth
    /\ hit' = SceneIntersect(scene, ray)
    /\ IF hit'.some
       THEN color' = zero /\ light_index' = 1 /\ pc' = "lights"
       ELSE color' = Miss(scene) /\ light_index' = light_index /\ pc' = "return"
    /\ UNCHANGED <<prim, ray, scene, contrib, width, height, camera, x, y, writer, traced, written, output,
                   args, file, stdout, returned, queries, attempts>>

\* one turn of the loop over the lights; contrib records what it added
NextLight ==
    /\ pc = "lights"
    /\ light_index <= Len(scene.lights)
    /\ color' = ShadeLight(scene, hit, scene.lights[light_index], color)
    /\ contrib' = Append(contrib, VSub(color', color))
    /\ light_index' = light_index + 1
    /\ UNCHANGED <<pc, prim, ray, hit, scene, width, height, camera, x, y, writer, traced, written, output,
                   args, file, stdout, returned, queries, attempts>>

\* the end of the loop: the ambient term
AddAmbient ==
    /\ pc = "lights"
    /\ light_index > Len(scene.lights)
    /\ color' = VAdd(color, Ambient(hit))
    /\ pc' = "return"
    /\ UNCHANGED <<prim, ray, hit, scene, light_index, contrib,
                   width, height, camera, x, y, writer, traced, written, output,
                   args, file, stdout, returned, queries, attempts>>

NextTrace == EnterTrace \/ NextLight \/ AddAmbient

SpecTrace == InitTrace /\ [][NextTrace]_vars

-----------------------------------------------------------------------------
(* Properties of trace_ray, under SpecTrace                                *)

Shaded == pc \in {"lights", "return"} /\ hit.some

LightVec(i) == VSub(scene.lights[i].position, hit.point)

\* diffuseFactor = max(0, normal . lightDirection)
DiffuseFactor(i) == FMax(dot(hit.normal, normalize(LightVec(i))), F(0))

ShadowRayOf(i) == Ray(VAdd(hit.point, VMul(hit.normal, EPSILON)), normalize(LightVec(i)))

\* some primitive is met by the shadow ray closer than the light by more
\* than 1e-4
Occluded(i) ==
    With2(ShadowRayOf(i), FSub(length(LightVec(i)), EPSILON),
          LAMBDA sr, limit :
              \E j \in 1..Len(scene.objects) :
                  With(IntersectV(scene.objects[j], sr),
                       LAMBDA h : h.some /\ FLtV(h.t, limit)))

TenthAlbedo == VMul(hit.material.albedo, Frac(1, 10))

\* albedo (.) lightColor x lightIntensity x diffuseFactor
Diffuse(i) ==
    With2(scene.lights[i], DiffuseFactor(i),
          LAMBDA l, d :
              Vec3(FMul(FMul(FMul(hit.material.albedo.x, l.color.x), l.intensity), d),
                   FMul(FMul(FMul(hit.material.albedo.y, l.color.y), l.intensity), d),
                   FMul(FMul(FMul(hit.material.albedo.z, l.color.z), l.intensity), d)))

Lit(i) == FGt(DiffuseFactor(i), F(0)) /\ ~Occluded(i)

RECURSIVE SumLit(_)
SumLit(n) ==
    IF n = 0 THEN zero
    ELSE With(SumLit(n - 1), LAMBDA sum : IF Lit(n) THEN VAdd(sum, Diffuse(n)) ELSE sum)

RECURSIVE SumContrib(_)
SumContrib(n) ==
    IF n = 0 THEN zero ELSE With(SumContrib(n - 1), LAMBDA sum : VAdd(sum, contrib[n]))

\* C6: a light with a positive diffuse factor whose shadow ray meets a
\* primitive closer than the light by more than 1e-4 adds exactly nothing to
\* the colour, and the colour returned is what the lights added plus the
\* ambient term albedo x 0.1.
C6_Shadow ==
    Shaded =>
        /\ \A i \in 1..Len(contrib) :
               (FGt(DiffuseFactor(i), F(0)) /\ Occluded(i)) => contrib[i] = zero
        /\ pc = "return" => color = VAdd(SumContrib(Len(contrib)), TenthAlbedo)

\* a shadowed light facing the surface, next to a light that is added
C6_Witness ==
    /\ Shaded /\ pc = "return"
    /\ \E i, k \in 1..Len(contrib) :
           /\ FGt(DiffuseFactor(i), F(0)) /\ Occluded(i) /\ contrib[i] = zero
           /\ contrib[k] # zero
    /\ color # TenthAlbedo

\* C7: for a primary ray that hits, trace_ray returns albedo x 0.1 plus the
\* sum, over the lights with a positive diffuse factor that are not shadowed,
\* of albedo (.) lightColor x lightIntensity x diffuseFactor; the ambient
\* term is there once, and alone when the scene has no light.
C7_Shading ==
    (pc = "return" /\ hit.some) =>
        /\ color = VAdd(TenthAlbedo, SumLit(Len(scene.lights)))
        /\ trace_ray(ray, scene, 0) = color
        /\ Len(scene.lights) = 0 => color = TenthAlbedo

\* two lights, one added with a diffuse factor below 1 and one left out
C7_Witness ==
    /\ pc = "return" /\ hit.some /\ Len(scene.lights) = 2
    /\ \E i, k \in 1..2 : /\ Lit(i) /\ FLt(DiffuseFactor(i), F(1))
                          /\ ~Lit(k)
    /\ color # TenthAlbedo

\* C8: when no primitive is hit by the primary ray the colour is the scene's
\* background colour as it is, whatever the lights.
C8_Background ==
    (pc = "return" /\ \A j \in 1..Len(scene.objects) : ~Intersect(scene.objects[j], ray).some) =>
        /\ color = scene.background_color
        /\ contrib = <<>>
        /\ trace_ray(ray, scene, 0) = scene.background_color

\* a miss in a scene that has objects and lights
C8_Witness ==
    /\ pc = "return" /\ ~hit.some
    /\ Len(scene.objects) > 0 /\ Len(scene.lights) = MaxLights
    /\ color = scene.background_color

-----------------------------------------------------------------------------
(* ppm.rs: the pixel buffer and its P3 text                                *)

\* the writer before PpmWriter::new is called: nothing of any size
NoWriter == [width |-> 0, height |-> 0, pixels |-> <<>>]

PpmNew(w, h) == [width |-> w, height |-> h, pixels |-> <<>>]

\* two of the three bytes pushed
write_pixel_rg(wr, r, g, b) == [wr EXCEPT !.pixels = Append(Append(@, r), g)]

write_pixel(wr, r, g, b) == [wr EXCEPT !.pixels = Append(Append(Append(@, r), g), b)]

Digit(d) ==
    CASE d = 0 -> "0" [] d = 1 -> "1" [] d = 2 -> "2" [] d = 3 -> "3" [] d = 4 -> "4"
      [] d = 5 -> "5" [] d = 6 -> "6" [] d = 7 -> "7" [] d = 8 -> "8" [] d = 9 -> "9"

\* the decimal text of an unsigned integer ({} of format!)
RECURSIVE Decimal(_)
Decimal(n) ==
    IF n < 10 THEN Digit(n)
    ELSE With(Decimal(n \div 10), LAMBDA high : high \o Digit(n % 10))

\* the k-th chunk of chunks(3), the last one possibly shorter
Chunk(pixels, k) ==
    SubSeq(pixels, 3 * k + 1, IF 3 * k + 3 <= Len(pixels) THEN 3 * k + 3 ELSE Len(pixels))

ChunkLine(result, chunk) ==
    IF Len(chunk) = 3
    THEN result \o Decimal(chunk[1]) \o " " \o Decimal(chunk[2]) \o " " \o Decimal(chunk[3]) \o "\n"
    ELSE result

RECURSIVE ChunkLoop(_, _, _)
ChunkLoop(pixels, k, result) ==
    IF 3 * k >= Len(pixels) THEN result
    ELSE With2(result, Chunk(pixels, k),
               LAMBDA res, chunk :
                   With(ChunkLine(res, chunk), LAMBDA res1 : ChunkLoop(pixels, k + 1, res1)))

to_stringV(wr) ==
    ChunkLoop(wr.pixels, 0,
              "P3\n" \o Decimal(wr.width) \o " " \o Decimal(wr.height) \o "\n" \o "255\n")

to_string(wr) == With(wr, to_stringV)

-----------------------------------------------------------------------------
(* render.rs: render                                                       *)

\* a cast that rounds to the nearest integer
ToU8Nearest(a) ==
    IF IsNaN(a) THEN 0
    ELSE IF FLeV(a, F(0)) THEN 0
    ELSE IF FLeV(F(255), a) THEN 255
    ELSE (2 * a[1] + a[2]) \div (2 * a[2])

\* the cast `as u8` of a float: toward zero, saturating, NaN to 0
ToU8V(a) ==
    IF IsNaN(a) THEN 0
    ELSE IF FLeV(a, F(0)) THEN 0
    ELSE IF FLeV(F(255), a) THEN 255
    ELSE a[1] \div a[2]

ColorByte(c) == With(FMul(F(255), FMax(FMin(c, F(1)), F(0))), ToU8V)

ScreenU(px, w) == FDiv(F(px), F(w))

\* v without the flip of the rows
ScreenVUnflipped(py, h) == FDiv(F(py), F(h))

ScreenV(py, h) == FDiv(F(h - 1 - py), F(h))

\* the camera main builds for scene 1, at a field of view of 90 degrees
RenderCamera(w, h) == CameraNew(zero, V(0, 0, -1), unit_y, 90, FDiv(F(w), F(h)))

WritePixelOf(wr, c) == write_pixel(wr, ColorByte(c.x), ColorByte(c.y), ColorByte(c.z))

-----------------------------------------------------------------------------
(* SpecRender: render, pixel by pixel                                      *)

MaxWidth == 3

MaxHeight == 3

\* an empty scene, a floor, the lit ball of main's scene 1, a box on a floor,
\* a ball over a floor, a ball with a light inside it and a light in front
RenderScenes ==
    { Scene(<<>>, <<>>, SkyBlue),
      Scene(<<Floor>>, <<>>, LightBlue),
      Scene(<<Ball>>, <<white_light(V(0, 0, 1), F(2))>>, LightBlue),
      Scene(<<Floor, Box>>, <<white_light(V(0, -3, -1), F(1))>>, SkyBlue),
      Scene(<<Ball, Floor>>, <<>>, SkyBlue),
      Scene(<<Ball>>, <<white_light(V(0, 0, -3), F(1)), white_light(V(0, 0, 1), F(2))>>,
            LightBlue) }

\* every pixel's ray meets rational roots only
RenderExact(s, w, h) ==
    With(RenderCamera(w, h),
         LAMBDA cam :
             \A px \in 0..(w - 1), py \in 0..(h - 1) :
                 TraceExact(s, get_ray(cam, ScreenU(px, w), ScreenV(py, h))))

InitRender ==
    /\ pc = "render"
    /\ prim = Unused
    /\ width \in 0..MaxWidth
    /\ height \in 0..MaxHeight
    /\ scene \in {s \in RenderScenes : RenderExact(s, width, height)}
    /\ camera = RenderCamera(width, height)
    /\ ray = Unused
    /\ hit = None
    /\ IdleTrace
    /\ x = 0 /\ y = 0
    /\ writer = NoWriter /\ traced = <<>> /\ written = <<>> /\ output = Unused
    /\ IdleMain

\* PpmWriter::new and the entry of the loops
StartRender ==
    /\ pc = "render"
    /\ pc' = "loop"
    /\ writer' = PpmNew(width, height)
    /\ x' = 0 /\ y' = 0
    /\ UNCHANGED <<prim, ray, hit, scene, color, light_index, contrib,
                   width, height, camera, traced, written, output,
                   args, file, stdout, returned, queries, attempts>>

\* the body of the inner loop; traced records the pixel and its screen
\* coordinates, written the bytes passed to write_pixel, queries the calls
\* that trace_ray made for the pixel
RenderPixel ==
    /\ pc = "loop" /\ y < height /\ x < width
    /\ x' = x + 1
    /\ ray' = get_ray(camera, ScreenU(x, width), ScreenV(y, height))
    /\ color' = trace_ray(ray', scene, 0)
    /\ writer' = WritePixelOf(writer, color')
    /\ traced' = Append(traced, [x |-> x, y |-> y,
                                 s |-> ScreenU(x, width), t |-> ScreenV(y, height)])
    /\ written' = Append(written, <<ColorByte(color'.x), ColorByte(color'.y), ColorByte(color'.z)>>)
    /\ queries' = Append(queries, TraceQueries(ray', scene, 0))
    /\ UNCHANGED <<pc, prim, hit, scene, light_index, contrib, width, height, camera, y, output,
                   args, file, stdout, returned, attempts>>

\* the end of a row
NextRow ==
    /\ pc = "loop" /\ y < height /\ x >= width
    /\ x' = 0 /\ y' = y + 1
    /\ UNCHANGED <<pc, prim, ray, hit, scene, color, light_index, contrib,
                   width, height, camera, writer, traced, written, output,
                   args, file, stdout, returned, queries, attempts>>

\* the end of the outer loop: the writer is returned
FinishRender ==
    /\ pc = "loop" /\ y >= height
    /\ pc' = "done"
    /\ UNCHANGED <<prim, ray, hit, scene, color, light_index, contrib,
                   width, height, camera, x, y, writer, traced, written, output,
                   args, file, stdout, returned, queries, attempts>>

NextRender == StartRender \/ RenderPixel \/ NextRow \/ FinishRender

SpecRender == InitRender /\ [][NextRender]_vars

\* render is sequential code without waits: a step that can be taken is
\* taken; every step moves pc, x or y
SpecRenderLive == SpecRender /\ WF_<<pc, x, y>>(NextRender)

\* the bytes of the k-th pixel (0-based) of the buffer
BufferPixel(k) == SubSeq(writer.pixels, 3 * k + 1, 3 * k + 3)

\* the bytes of the colour traced through screen coordinates (s, t)
TracedBytes(s, t) ==
    With(trace_ray(get_ray(camera, s, t), scene, 0),
         LAMBDA c : <<ColorByte(c.x), ColorByte(c.y), ColorByte(c.z)>>)

InUnit(a) == FGe(a, F(0)) /\ FLt(a, F(1))

\* C9: the buffer holds the pixels written so far, width x height of them
\* after render; the k-th written is column k mod width of row k div width,
\* traced with s = x / width and t = (height - 1 - y) / height, both in
\* [0, 1), row 0 having the largest t.
C9_ScanOrder ==
    pc \in {"loop", "done"} =>
        /\ Len(writer.pixels) = 3 * Len(traced)
        /\ pc = "done" => Len(traced) = width * height
        /\ \A k \in 0..(Len(traced) - 1) :
               With(traced[k + 1],
                    LAMBDA e :
                        /\ e.x = k % width /\ e.y = k \div width
                        /\ e.s = Frac(e.x, width) /\ e.t = Frac(height - 1 - e.y, height)
                        /\ InUnit(e.s) /\ InUnit(e.t)
                        /\ e.y = 0 => \A j \in 1..Len(traced) : FLe(traced[j].t, e.t)
                        /\ BufferPixel(k) = TracedBytes(e.s, e.t))

\* a finished image of three columns and two rows with two different pixels
C9_Witness ==
    /\ pc = "done" /\ width = 3 /\ height = 2 /\ Len(traced) = 6
    /\ traced[5].x = 1 /\ traced[5].y = 1
    /\ \E j, k \in 0..5 : BufferPixel(j) # BufferPixel(k)

-----------------------------------------------------------------------------
(* SpecPpm: pixels written to a PpmWriter, then to_string                  *)

\* the number of pixels written
MaxPixels == 3

\* main's default image size among the dimensions
Dimensions == {0, MaxWidth, 600, 800}

PixelBytes == {<<0, 0, 0>>, <<255, 0, 51>>, <<9, 10, 100>>, <<127, 178, 255>>}

InitPpm ==
    /\ pc = "writing"
    /\ prim = Unused /\ ray = Unused /\ hit = None /\ scene = Unused
    /\ IdleTrace
    /\ width \in Dimensions
    /\ height \in Dimensions
    /\ camera = Unused /\ x = 0 /\ y = 0
    /\ writer = PpmNew(width, height)
    /\ traced = <<>> /\ written = <<>> /\ output = Unused
    /\ IdleMain

\* written records the pixels passed to write_pixel
WritePixel ==
    /\ pc = "writing"
    /\ Len(written) < MaxPixels
    /\ \E p \in PixelBytes :
           /\ writer' = write_pixel(writer, p[1], p[2], p[3])
           /\ written' = Append(written, p)
    /\ UNCHANGED <<pc, prim, ray, hit, scene, color, light_index, contrib,
                   width, height, camera, x, y, traced, output,
                   args, file, stdout, returned, queries, attempts>>

CallToString ==
    /\ pc = "writing"
    /\ output' = to_string(writer)
    /\ pc' = "done"
    /\ UNCHANGED <<prim, ray, hit, scene, color, light_index, contrib,
                   width, height, camera, x, y, writer, traced, written,
                   args, file, stdout, returned, queries, attempts>>

NextPpm == WritePixel \/ CallToString

SpecPpm == InitPpm /\ [][NextPpm]_vars

\* the decimal text of the numbers that occur
Numeral(n) ==
    CASE n = 0 -> "0" [] n = 3 -> "3" [] n = 4 -> "4" [] n = 9 -> "9" [] n = 10 -> "10"
      [] n = 51 -> "51" [] n = 100 -> "100" [] n = 127 -> "127" [] n = 178 -> "178"
      [] n = 255 -> "255" [] n = 600 -> "600" [] n = 800 -> "800"

PixelLine(p) == Numeral(p[1]) \o " " \o Numeral(p[2]) \o " " \o Numeral(p[3]) \o "\n"

RECURSIVE PixelText(_)
PixelText(n) ==
    IF n = 0 THEN "" ELSE With(PixelText(n - 1), LAMBDA text : text \o PixelLine(written[n]))

\* C10: to_string gives the lines P3, "{width} {height}" and 255, then one
\* line "R G B" per pixel passed to write_pixel, in the order written; the
\* buffer always holds three bytes per written pixel, so no chunk is short.
C10_PpmText ==
    pc \in {"writing", "done"} =>
        /\ Len(writer.pixels) = 3 * Len(written)
        /\ pc = "done" =>
               output = "P3\n" \o Numeral(width) \o " " \o Numeral(height) \o "\n255\n"
                            \o PixelText(Len(written))

\* two pixels written to an 800 x 600 writer
C10_Witness ==
    /\ pc = "done" /\ width = 800 /\ height = 600
    /\ written = << <<255, 0, 51>>, <<9, 10, 100>> >>
    /\ output = "P3\n800 600\n255\n255 0 51\n9 10 100\n"

-----------------------------------------------------------------------------
(* SpecByte: one colour converted to bytes and stored                      *)

\* the largest denominator of a colour channel
MaxDen == 6

\* channels from -1 to 2, and the values that are not finite
Channels ==
    {Frac(n, d) : n \in (-MaxDen)..(2 * MaxDen), d \in 1..MaxDen}
    \cup {NaN, INFINITY, NEG_INFINITY}

InitByte ==
    /\ pc = "convert"
    /\ prim = Unused /\ ray = Unused /\ hit = None /\ scene = Unused
    /\ \E a \in Channels, b \in Channels :
           color = Vec3(a, b, a)
    /\ light_index = 0 /\ contrib = <<>>
    /\ width = 1 /\ height = 1
    /\ camera = Unused /\ x = 0 /\ y = 0
    /\ writer = PpmNew(1, 1)
    /\ traced = <<>> /\ written = <<>> /\ output = Unused
    /\ IdleMain

\* the three casts and write_pixel
StoreColor ==
    /\ pc = "convert"
    /\ writer' = WritePixelOf(writer, color)
    /\ written' = Append(written, writer'.pixels)
    /\ pc' = "done"
    /\ UNCHANGED <<prim, ray, hit, scene, color, light_index, contrib,
                   width, height, camera, x, y, traced, output,
                   args, file, stdout, returned, queries, attempts>>

NextByte == StoreColor

SpecByte == InitByte /\ [][NextByte]_vars

\* byte s is what channel ch stores
ByteRule(ch, s) ==
    /\ s \in 0..255
    /\ FGe(ch, F(1)) => s = 255
    /\ FLe(ch, F(0)) => s = 0
    /\ (FGt(ch, F(0)) /\ FLt(ch, F(1))) =>
           FLe(F(s), FMul(F(255), ch)) /\ FLt(FMul(F(255), ch), F(s + 1))

\* C11: a channel is stored as 255 x clamp(channel, 0, 1) rounded toward
\* zero: 255 at or above 1, 0 at or below 0, floor(255 x channel) between;
\* the stored value is in 0..255 and does not decrease when the channel
\* increases.
C11_ByteRule ==
    pc = "done" =>
        /\ Len(writer.pixels) = 3
        /\ ByteRule(color.x, writer.pixels[1])
        /\ ByteRule(color.y, writer.pixels[2])
        /\ ByteRule(color.z, writer.pixels[3])
        /\ FLe(color.x, color.y) => writer.pixels[1] <= writer.pixels[2]

\* two channels strictly between 0 and 1 whose products with 255 are not
\* whole and that store different bytes
C11_Witness ==
    /\ pc = "done"
    /\ FGt(color.x, F(0)) /\ FLt(color.x, color.y) /\ FLt(color.y, F(1))
    /\ FLt(F(writer.pixels[1]), FMul(F(255), color.x))
    /\ writer.pixels[1] < writer.pixels[2]

-----------------------------------------------------------------------------
(* SpecMain: main, from the parsed arguments to the output                 *)

Args(w, h, sc, brightness, fov, out, aa, reflect, mt) ==
    [width |-> w, height |-> h, scene |-> sc, brightness |-> brightness, fov |-> fov,
     output |-> out, aa |-> aa, reflect |-> reflect, mt |-> mt]

\* Option<String> and Option<u32>
NoneOpt == [some |-> FALSE]

Some(v) == [some |-> TRUE, value |-> v]

\* scene 1 and the default scene; the cameras of scenes 2, 3 and 4 have
\* irrational bases, and these scenes are left out of the arguments
MainScene(a) ==
    CASE a.scene = 1 ->
             Scene(<<Sphere(V(0, 0, -3), Frac(12, 10), green, TransformNew)>>,
                   <<white_light(V(0, 0, 1), FMul(a.brightness, F(2)))>>,
                   LightBlue)
      [] a.scene \notin 1..4 ->
             Scene(<<Sphere(V(0, 0, -3), F(1), red, TransformNew)>>,
                   <<white_light(V(2, 2, 0), a.brightness)>>,
                   SkyBlue)

MainCamera(a) ==
    CameraNew(zero, V(0, 0, -1), unit_y, a.fov, FDiv(F(a.width), F(a.height)))

\* render as a function of its arguments: the buffer after pixel k and the
\* pixels that follow it, row by row
RECURSIVE RenderFrom(_, _, _, _, _, _)
RenderFrom(s, cam, w, h, k, wr) ==
    IF k >= w * h THEN wr
    ELSE With(WritePixelOf(wr, trace_ray(get_ray(cam, ScreenU(k % w, w), ScreenV(k \div w, h)),
                                         s, 0)),
              LAMBDA wr1 : RenderFrom(s, cam, w, h, k + 1, wr1))

render(s, cam, w, h) ==
    With2(s, cam, LAMBDA s1, cam1 : RenderFrom(s1, cam1, w, h, 0, PpmNew(w, h)))

\* an error that is swallowed
PropagateSwallowed(ok) == "Ok"

\* the `?` of main: the result of std::fs::write becomes the result of main
\* when it is an error
Propagate(ok) == IF ok THEN "Ok" ELSE "Err"

\* every pixel's ray meets rational roots only
MainExact(a) ==
    With2(MainScene(a), MainCamera(a),
          LAMBDA s, cam :
              \A px \in 0..(a.width - 1), py \in 0..(a.height - 1) :
                  TraceExact(s, get_ray(cam, ScreenU(px, a.width), ScreenV(py, a.height))))

\* the sizes and scenes of the runs
Runs ==
    {a \in {Args(w, h, sc, F(1), 90, NoneOpt, NoneOpt, FALSE, FALSE) :
                w \in 0..MaxWidth, h \in 0..MaxHeight, sc \in {1, 5}} : MainExact(a)}

\* the parsed arguments
ArgsSet ==
    {[a EXCEPT !.output = out, !.aa = aa, !.reflect = reflect, !.mt = mt] :
         a \in Runs, out \in {NoneOpt, Some("out.ppm")}, aa \in {NoneOpt, Some(4)},
         reflect \in BOOLEAN, mt \in BOOLEAN}

InitMain ==
    /\ pc = "main"
    /\ args \in ArgsSet
    /\ file \in {"absent", "old"}
    /\ stdout = ""
    /\ returned = "running"
    /\ attempts = 0
    /\ queries = <<>>
    /\ prim = Unused /\ ray = Unused /\ hit = None /\ scene = Unused
    /\ IdleTrace
    /\ width = 0 /\ height = 0 /\ camera = Unused /\ x = 0 /\ y = 0
    /\ writer = NoWriter /\ traced = <<>> /\ written = <<>> /\ output = Unused

\* the scene and the camera are built; render is called
BuildScene ==
    /\ pc = "main"
    /\ scene' = MainScene(args)
    /\ camera' = MainCamera(args)
    /\ width' = args.width /\ height' = args.height
    /\ pc' = "render"
    /\ UNCHANGED <<prim, ray, hit, color, light_index, contrib, x, y, writer, traced,
                   written, output, args, file, stdout, returned, queries, attempts>>

\* std::fs::write of the text: the file is written, or the write fails
\* before the file is created, or after it was created and truncated
WriteFile ==
    /\ pc = "done" /\ returned = "running" /\ args.output.some
    /\ output' = to_string(writer)
    /\ attempts' = attempts + 1
    /\ \E outcome \in {"written", "not created", "truncated"} :
           /\ file' = CASE outcome = "written" -> output'
                        [] outcome = "not created" -> file
                        [] outcome = "truncated" -> ""
           /\ returned' = Propagate(outcome = "written")
    /\ pc' = "exit"
    /\ UNCHANGED <<prim, ray, hit, scene, color, light_index, contrib, width, height,
                   camera, x, y, writer, traced, written, args, stdout, queries>>

\* print! of the text: it is printed, or print! panics
PrintOutput ==
    /\ pc = "done" /\ returned = "running" /\ ~args.output.some
    /\ output' = to_string(writer)
    /\ attempts' = attempts + 1
    /\ \/ stdout' = stdout \o output' /\ returned' = "Ok"
       \/ stdout' = stdout /\ returned' = "panic"
    /\ pc' = "exit"
    /\ UNCHANGED <<prim, ray, hit, scene, color, light_index, contrib, width, height,
                   camera, x, y, writer, traced, written, args, file, queries>>

NextMain ==
    \/ BuildScene
    \/ StartRender \/ RenderPixel \/ NextRow \/ FinishRender
    \/ WriteFile \/ PrintOutput

SpecMain == InitMain /\ [][NextMain]_vars

\* the arguments without the three flags
NoFlags(a) == [a EXCEPT !.aa = NoneOpt, !.reflect = FALSE, !.mt = FALSE]

\* other values of the three fields that shading does not read
InertValues ==
    { [specular |-> Frac(1, 2), shininess |-> F(32), reflectivity |-> F(0)],
      [specular |-> F(0), shininess |-> F(1), reflectivity |-> Frac(9, 10)],
      [specular |-> F(1), shininess |-> F(0), reflectivity |-> F(1)] }

\* scene s with these values in the material of every object
Remade(s, m) ==
    [s EXCEPT !.objects =
        [i \in 1..Len(s.objects) |->
            [s.objects[i] EXCEPT !.material =
                [albedo |-> s.objects[i].material.albedo, specular |-> m.specular,
                 shininess |-> m.shininess, reflectivity |-> m.reflectivity]]]]

AllPixelsStored ==
    /\ pc = "done"
    /\ Len(traced) = width * height
    /\ Len(writer.pixels) = 3 * width * height

\* C13: nothing is written to the file or to stdout before every one of the
\* width x height pixels has been computed and stored; the write is attempted
\* once and never again; a failed write of the output file makes main return
\* an error.
C13_AllOrNothing ==
    /\ [][(file' # file \/ stdout' # stdout \/ attempts' # attempts) =>
              (AllPixelsStored /\ attempts = 0 /\ attempts' = 1)]_vars
    /\ [](attempts <= 1)
    /\ [](pc = "exit" =>
              /\ attempts = 1
              /\ args.output.some => (returned = "Ok" <=> file = to_string(writer))
              /\ (args.output.some /\ file # to_string(writer)) => returned = "Err")

\* a write that failed after the file was created, all pixels stored
C13_Witness ==
    /\ pc = "exit" /\ args.output.some
    /\ Len(writer.pixels) = 3 * MaxWidth * MaxHeight
    /\ file = "" /\ returned = "Err" /\ attempts = 1

-----------------------------------------------------------------------------
(* SpecCamera: two cameras built from the same arguments, and get_ray      *)

\* the arguments of Camera::new; the aspect ratio is width / height of two
\* unsigned sizes, so it is infinite or NaN when the height is 0
CameraArgs ==
    {[look_from |-> f, look_at |-> la, up |-> unit_y, fov |-> fov, aspect_ratio |-> FDiv(F(w), F(h))] :
         f \in {zero, V(0, 0, MaxCoord), V(MaxCoord, 0, 0)},
         la \in {V(0, 0, -1), V(0, 0, MaxCoord), V(-1, 0, 0)},
         fov \in {90, 0},
         w \in 0..2, h \in 0..2}

\* the lengths the constructor divides by are rational
CameraExact(a) ==
    /\ ExactRoot(dot(VSub(a.look_from, a.look_at), VSub(a.look_from, a.look_at)))
    /\ With(cross(a.up, normalize(VSub(a.look_from, a.look_at))),
            LAMBDA c : ExactRoot(dot(c, c)))

\* the screen coordinates passed to get_ray
ScreenPoints == {F(0), Frac(1, 2), F(1)}

InitCamera ==
    /\ pc = "camera"
    /\ \E a \in {b \in CameraArgs : CameraExact(b)} :
           /\ args = a
           /\ camera = <<CameraNew(a.look_from, a.look_at, a.up, a.fov, a.aspect_ratio),
                         CameraNew(a.look_from, a.look_at, a.up, a.fov, a.aspect_ratio)>>
    /\ ray = <<None, None>>
    /\ traced = <<None, None>>
    /\ prim = Unused /\ hit = None /\ scene = Unused
    /\ IdleTrace
    /\ width = 0 /\ height = 0 /\ x = 0 /\ y = 0
    /\ writer = Unused /\ written = <<>> /\ output = Unused
    /\ file = Unused /\ stdout = Unused /\ returned = Unused
    /\ queries = <<>> /\ attempts = 0

\* a get_ray that moves the camera to the origin of the ray's direction
CallGetRayMoving ==
    /\ pc = "camera"
    /\ \E i \in 1..2, s \in ScreenPoints, t \in ScreenPoints :
           /\ ray' = [ray EXCEPT ![i] = [some |-> TRUE, ray |-> get_ray(camera[i], s, t)]]
           /\ traced' = [traced EXCEPT ![i] = [some |-> TRUE, s |-> s, t |-> t]]
           /\ camera' = [camera EXCEPT ![i].origin = ray'[i].ray.direction]
    /\ UNCHANGED <<pc, prim, hit, scene, color, light_index, contrib, width, height,
                   x, y, writer, written, output,
                   args, file, stdout, returned, queries, attempts>>

\* get_ray(&self, s, t) on one of the two cameras
CallGetRay ==
    /\ pc = "camera"
    /\ \E i \in 1..2, s \in ScreenPoints, t \in ScreenPoints :
           /\ ray' = [ray EXCEPT ![i] = [some |-> TRUE, ray |-> get_ray(camera[i], s, t)]]
           /\ traced' = [traced EXCEPT ![i] = [some |-> TRUE, s |-> s, t |-> t]]
    /\ UNCHANGED <<pc, prim, hit, scene, color, light_index, contrib, width, height,
                   camera, x, y, writer, written, output,
                   args, file, stdout, returned, queries, attempts>>

NextCamera == CallGetRay

SpecCamera == InitCamera /\ [][NextCamera]_vars

-----------------------------------------------------------------------------
(* SpecNormalize: Vec3::normalize applied to two vectors, one after the     *)
(* other                                                                   *)

\* the largest magnitude of a component
MaxComp == 2

\* vectors of a rational length, halved ones among them, and vectors with a
\* component that is not finite
Vectors ==
    {v \in {Vec3(Frac(a, d), Frac(b, d), Frac(c, d)) :
                a \in (-MaxComp)..MaxComp, b \in (-MaxComp)..MaxComp,
                c \in (-MaxComp)..MaxComp, d \in 1..2} : ExactRoot(dot(v, v))}
    \cup {Vec3(INFINITY, F(0), F(0)), Vec3(F(0), NaN, F(1)), Vec3(F(1), F(0), NEG_INFINITY)}

InitNormalize ==
    /\ pc = "call"
    /\ prim \in Vectors \X Vectors
    /\ traced = <<>>
    /\ ray = Unused /\ hit = None /\ scene = Unused
    /\ IdleTrace
    /\ width = 0 /\ height = 0 /\ camera = Unused /\ x = 0 /\ y = 0
    /\ writer = Unused /\ written = <<>> /\ output = Unused
    /\ IdleMain

\* the next vector is normalized; traced keeps the argument and the result
CallNormalize ==
    /\ pc = "call" /\ Len(traced) < Len(prim)
    /\ traced' = Append(traced, [v |-> prim[Len(traced) + 1],
                                 result |-> normalize(prim[Len(traced) + 1])])
    /\ UNCHANGED <<pc, prim, ray, hit, scene, color, light_index, contrib, width, height,
                   camera, x, y, writer, written, output,
                   args, file, stdout, returned, queries, attempts>>

NextNormalize == CallNormalize

SpecNormalize == InitNormalize /\ [][NextNormalize]_vars

\* the vector divided component by component
DividedBy(v, len) == Vec3(FDiv(v.x, len), FDiv(v.y, len), FDiv(v.z, len))

\* C15: normalize returns a vector of length exactly zero unchanged, and a
\* vector of positive length divided component-wise by its length.
C15_Normalize ==
    \A k \in 1..Len(traced) :
        /\ FEq(length(traced[k].v), F(0)) => traced[k].result = traced[k].v
        /\ FGt(length(traced[k].v), F(0)) =>
               /\ traced[k].result = DividedBy(traced[k].v, length(traced[k].v))
               /\ FLt(length(traced[k].v), INFINITY) =>
                      FEq(dot(traced[k].result, traced[k].result), F(1))

\* the zero vector and a vector of length 3/2 off the axes were normalized
C15_Witness ==
    /\ Len(traced) = 2
    /\ traced[1].v = zero /\ traced[1].result = zero
    /\ traced[2].v = Vec3(Frac(1, 2), F(-1), F(1))
    /\ traced[2].result = Vec3(Frac(1, 3), Frac(-2, 3), Frac(2, 3))

-----------------------------------------------------------------------------
(* Further properties of the primitives, under SpecShapes                  *)

\* the six signed unit axis vectors
AxisVectors ==
    {V(1, 0, 0), V(-1, 0, 0), V(0, 1, 0), V(0, -1, 0), V(0, 0, 1), V(0, 0, -1)}

\* C16: every hit returned by the box carries a normal that is one of the
\* six signed unit axis vectors, never the zero vector, whatever slabs the
\* ray is parallel to.
C16_CubeNormal ==
    (Returned("cube") /\ hit.some) => hit.normal \in AxisVectors

\* the normal is an axis vector unless the ray is parallel to all three slabs
C16_OnlyAllParallel ==
    (Returned("cube") /\ hit.some /\ hit.normal \notin AxisVectors) =>
        /\ \A i \in CubeAxes : CubeParallel(i)
        /\ hit.normal = zero /\ hit.t = INFINITY

\* the box returned a hit although no latest entry lies beyond the bias: the
\* fallback to t_max
CubeFallback ==
    /\ Returned("cube") /\ hit.some
    /\ ~\E i \in CubeAxes : IsLatestEntry(CubeEntry(i)) /\ FGt(CubeEntry(i), EPSILON)

\* the outward unit vector of the face the ray leaves through on axis i
ExitNormal(i) ==
    With(IF FGt(Axis(ray.direction, i), F(0)) THEN 1 ELSE -1,
         LAMBDA sgn : IF i = 0 THEN V(sgn, 0, 0) ELSE IF i = 1 THEN V(0, sgn, 0) ELSE V(0, 0, sgn))

\* t is the exit parameter and the point the exit point
CubeExitHit ==
    /\ IF CubeAxes = {} THEN hit.t = INFINITY ELSE IsEarliestExit(hit.t)
    /\ hit.point = at(ray, hit.t)

\* the normal is that of the face of the latest entry, and of no exit face
CubeEntryNormalKept ==
    /\ \E i \in CubeAxes : IsLatestEntry(CubeEntry(i)) /\ hit.normal = EntryNormal(i)
    /\ \A j \in CubeAxes : IsEarliestExit(CubeExit(j)) => hit.normal # ExitNormal(j)

\* C17: when the box falls back to t_max because t_min is not greater than
\* 1e-4, the returned t is t_max and the point the exit point, while the
\* normal is the one of the face that produced the latest entry t_min, not
\* the one of the face the ray exits through.
C17_ExitFallback ==
    CubeFallback => (CubeExitHit /\ CubeEntryNormalKept)

\* the same for the rays that are not parallel to all three slabs
C17_SomeAxis ==
    (CubeFallback /\ CubeAxes # {}) => (CubeExitHit /\ CubeEntryNormalKept)

\* a fallback whose entry and exit are on different axes
C17_SomeAxisReached ==
    /\ CubeFallback /\ CubeExitHit /\ CubeEntryNormalKept
    /\ \E i \in CubeAxes, j \in CubeAxes :
           i # j /\ hit.normal = EntryNormal(i) /\ IsEarliestExit(CubeExit(j))

-----------------------------------------------------------------------------
(* The calls made for each pixel, under SpecRenderLive                     *)

\* the positions in the calls of pixel k of the nearest-hit queries of a kind
QueriesFor(k, kind) ==
    {j \in 1..Len(queries[k]) : queries[k][j].op = "intersect" /\ queries[k][j].for = kind}

\* the entries of trace_ray among the calls of pixel k
Entries(k) == {j \in 1..Len(queries[k]) : queries[k][j].op = "trace_ray"}

\* the primary ray of pixel k and what it hits
PrimaryRayOf(k) == get_ray(camera, traced[k].s, traced[k].t)

PrimaryHitOf(k) == SceneIntersect(scene, PrimaryRayOf(k))

\* the diffuse factor of light i at hit h is strictly positive
FacesLight(h, i) ==
    FGt(dot(h.normal, normalize(VSub(scene.lights[i].position, h.point))), F(0))

\* the calls of pixel k
PixelQueries(k) ==
    /\ Cardinality(QueriesFor(k, "primary")) = 1
    /\ \A j \in QueriesFor(k, "primary") : queries[k][j].ray = PrimaryRayOf(k)
    /\ \A i \in 1..Len(scene.lights) :
           Cardinality({j \in QueriesFor(k, "shadow") : queries[k][j].light = i}) <= 1
    /\ \A j \in QueriesFor(k, "shadow") :
           /\ queries[k][j].light \in 1..Len(scene.lights)
           /\ PrimaryHitOf(k).some
           /\ FacesLight(PrimaryHitOf(k), queries[k][j].light)
    /\ ~PrimaryHitOf(k).some => QueriesFor(k, "shadow") = {}
    /\ Cardinality(Entries(k)) = 1
    /\ \A j \in Entries(k) : queries[k][j].depth = 0

\* C18: for every pixel the nearest-hit query is made once for the primary
\* ray and at most once per light for shadow rays, for a light only when its
\* diffuse factor is strictly positive and never when the primary ray
\* missed; trace_ray is entered at depth 0 only and once per pixel, and
\* render ends after width x height pixel evaluations.
C18_Queries ==
    /\ [](/\ Len(queries) = Len(traced)
          /\ \A k \in 1..Len(queries) : PixelQueries(k))
    /\ [](pc = "done" => Len(queries) = width * height)
    /\ <>(pc = "done")

\* a finished render with a pixel that missed and a pixel whose hit faces one
\* light, for which the shadow query was made, and not the other, for which
\* none was
C18_Witness ==
    /\ pc = "done" /\ Len(queries) = width * height
    /\ \E k \in 1..Len(queries) : ~PrimaryHitOf(k).some /\ Len(queries[k]) = 2
    /\ \E k \in 1..Len(queries) :
           /\ PrimaryHitOf(k).some
           /\ \E i \in 1..Len(scene.lights) :
                  \A j \in QueriesFor(k, "shadow") : queries[k][j].light # i
           /\ \E j \in QueriesFor(k, "shadow") :
                  FacesLight(PrimaryHitOf(k), queries[k][j].light)

-----------------------------------------------------------------------------
(* SpecPlaced: the placement of a sphere, with the rounding of the         *)
(* floating-point operations.  The numbers of this part are binary         *)
(* floating-point numbers of MantBits significant bits and of unbounded    *)
(* exponent: every operation returns the exact result rounded to the       *)
(* nearest such number, ties to even, as an f64 operation does with 53     *)
(* bits.                                                                   *)

\* the significant bits of a number
MantBits == 4

\* the integer nearest to n/d, ties to even, for n/d > 0
NearestEven(n, d) ==
    With(n \div d,
         LAMBDA fl :
             IF 2 * (n - fl * d) > d \/ (2 * (n - fl * d) = d /\ fl % 2 = 1) THEN fl + 1 ELSE fl)

\* n/d > 0 rounded to MantBits significant bits
RECURSIVE RoundPos(_, _)
RoundPos(n, d) ==
    IF n >= d * 2^MantBits THEN With(RoundPos(n, 2 * d), LAMBDA r : FMulV(F(2), r))
    ELSE IF n < d * 2^(MantBits - 1) THEN With(RoundPos(2 * n, d), LAMBDA r : FDivV(r, F(2)))
    ELSE F(NearestEven(n, d))

RoundV(a) ==
    IF a[2] = 0 \/ a[1] = 0 THEN a
    ELSE IF a[1] > 0 THEN RoundPos(a[1], a[2])
    ELSE With(RoundPos(-a[1], a[2]), FNegV)

Round(a) == With(a, RoundV)

\* the four operations, rounded
RAdd(a, b) == Round(FAdd(a, b))

RSub(a, b) == Round(FSub(a, b))

RMul(a, b) == Round(FMul(a, b))

RDiv(a, b) == Round(FDiv(a, b))

\* Ray::at, rounded: origin + direction * t
at_rounded(r, t) ==
    Vec3(RAdd(r.origin.x, RMul(r.direction.x, t)),
         RAdd(r.origin.y, RMul(r.direction.y, t)),
         RAdd(r.origin.z, RMul(r.direction.z, t)))

inverse_transform_ray_rounded(tr, r) ==
    With(Vec3(RDiv(F(1), tr.scale.x), RDiv(F(1), tr.scale.y), RDiv(F(1), tr.scale.z)),
         LAMBDA inv_scale :
             Ray(Vec3(RMul(RSub(r.origin.x, tr.translation.x), inv_scale.x),
                      RMul(RSub(r.origin.y, tr.translation.y), inv_scale.y),
                      RMul(RSub(r.origin.z, tr.translation.z), inv_scale.z)),
                 Vec3(RMul(r.direction.x, inv_scale.x),
                      RMul(r.direction.y, inv_scale.y),
                      RMul(r.direction.z, inv_scale.z))))

apply_to_point_rounded(tr, p) ==
    Vec3(RAdd(RMul(p.x, tr.scale.x), tr.translation.x),
         RAdd(RMul(p.y, tr.scale.y), tr.translation.y),
         RAdd(RMul(p.z, tr.scale.z), tr.translation.z))

\* the hit of a placed sphere at the root t of its quadratic: the ray is
\* taken to object space, evaluated at t and the point taken back
PlacedHit(tr, r, t) ==
    With(inverse_transform_ray_rounded(tr, r),
         LAMBDA local_ray :
             With(at_rounded(local_ray, t),
                  LAMBDA hit_point :
                      [some |-> TRUE, t |-> t, local_ray |-> local_ray, hit_point |-> hit_point,
                       point |-> apply_to_point_rounded(tr, hit_point)]))

\* placements other than the identity, with no zero scale
Placements ==
    {Transform(Vec3(F(a), F(0), F(b)), Vec3(k, k, k)) :
         a \in {0, 1, -3}, b \in {0, MaxCoord, -3}, k \in {F(1), F(2), F(3), F(-1), Frac(1, 2)}}
    \ {TransformNew}

PlacedRays ==
    {Ray(Vec3(a, F(0), b), d) :
         a \in {F(0), F(MaxCoord), Frac(5, 2)}, b \in {F(0), F(MaxCoord), Frac(5, 2)},
         d \in {V(0, 0, -1), V(1, 0, -3), Vec3(Frac(1, 8), F(0), F(-1))}}

\* roots beyond the bias
PlacedRoots == {F(1), Frac(3, 2), F(5)}

InitPlaced ==
    /\ pc = "call"
    /\ prim \in {Sphere(zero, F(1), red, tr) : tr \in Placements}
    /\ ray \in PlacedRays
    /\ hit = None
    /\ scene = Unused
    /\ IdleTrace
    /\ IdleRender

\* lines 39-43 and 74-82 of Sphere::intersect, for a root t
CallPlaced ==
    /\ pc = "call"
    /\ \E t \in PlacedRoots : hit' = PlacedHit(prim.transform, ray, t)
    /\ pc' = "done"
    /\ UNCHANGED <<prim, ray, scene, color, light_index, contrib,
                   width, height, camera, x, y, writer, traced, written, output,
                   args, file, stdout, returned, queries, attempts>>

NextPlaced == CallPlaced

SpecPlaced == InitPlaced /\ [][NextPlaced]_vars

\* no operation of the two computations rounded
NothingRounded ==
    /\ hit.local_ray = inverse_transform_rayV(prim.transform, ray)
    /\ hit.hit_point = atV(hit.local_ray, hit.t)
    /\ hit.point = apply_to_pointV(prim.transform, hit.hit_point)
    /\ at_rounded(ray, hit.t) = atV(ray, hit.t)

\* C19 as stated: the world-space hit point is the ray evaluated at t
C19_Original ==
    pc = "done" => hit.point = at_rounded(ray, hit.t)

\* C19: for a sphere with a placement other than the identity and no zero
\* scale, the point taken back to world space is the world ray evaluated at
\* the returned t in exact arithmetic, and in floating point whenever no
\* operation rounds.
C19_Placement ==
    pc = "done" =>
        /\ apply_to_pointV(prim.transform,
                           atV(inverse_transform_rayV(prim.transform, ray), hit.t))
               = atV(ray, hit.t)
        /\ NothingRounded => hit.point = at_rounded(ray, hit.t)

\* a translated and scaled sphere, with and without rounding
C19_Witness ==
    /\ pc = "done"
    /\ prim.transform.translation # zero /\ prim.transform.scale = V(2, 2, 2)
    /\ ray.origin # zero /\ ray.direction = V(1, 0, -3)
    /\ NothingRounded
    /\ hit.point = at_rounded(ray, hit.t)

-----------------------------------------------------------------------------
(***************************************************************************)
(* SpecCapacity: the capacity PpmWriter::new asks for, in u32 arithmetic   *)
(***************************************************************************)

\* A u32 is kept as its four bytes, least significant first, so that every
\* value of the type, and every product of two of them, can be written down.
Byte == 256

U32(n) == <<n % Byte, (n \div Byte) % Byte, (n \div (Byte * Byte)) % Byte,
            (n \div (Byte * Byte * Byte)) % Byte>>

U32_MAX == <<255, 255, 255, 255>>

Limb(a, i) == IF i \in 1..4 THEN a[i] ELSE 0

\* the sum of the byte products of weight Byte^k in a * b
Column(a, b, k) ==
    Limb(a, 1) * Limb(b, k + 1) + Limb(a, 2) * Limb(b, k)
        + Limb(a, 3) * Limb(b, k - 1) + Limb(a, 4) * Limb(b, k - 2)

RECURSIVE CarryInto(_, _, _)
CarryInto(a, b, k) ==
    IF k = 0 THEN 0 ELSE (Column(a, b, k - 1) + CarryInto(a, b, k - 1)) \div Byte

ProductByte(a, b, k) == (Column(a, b, k) + CarryInto(a, b, k)) % Byte

\* u32 * u32: the low 32 bits of the product, and whether the product has
\* any bit above them
MulU32(a, b) ==
    [value    |-> <<ProductByte(a, b, 0), ProductByte(a, b, 1),
                    ProductByte(a, b, 2), ProductByte(a, b, 3)>>,
     overflow |-> \E k \in 4..7 : ProductByte(a, b, k) # 0]

\* (width * height * 3) as usize: the two multiplications, left to right.
\* With overflow checks the first overflowing multiplication panics; without
\* them each product wraps.  The cast to usize widens and changes nothing.
Capacity(w, h, overflow_checks) ==
    LET wh  == MulU32(w, h)
        whc == MulU32(wh.value, U32(3))
    IN  [panicked   |-> overflow_checks /\ (wh.overflow \/ whc.overflow),
         overflowed |-> wh.overflow \/ whc.overflow,
         capacity   |-> whc.value]

\* image sizes: the default 800 x 600, the largest squares that fit with and
\* without the factor 3, a third of the range, and the ends of the type
Sizes ==
    {U32(n) : n \in {0, 1, 2, 3, 600, 800, 16383, 37837, 37838, 65535, 65536,
                     1431655765, 1431655766, 2147483647}}
        \cup {U32_MAX}

\* Args::parse has accepted any two u32 values; render is about to be called
InitCapacity ==
    /\ pc = "call"
    /\ width \in Sizes /\ height \in Sizes
    /\ writer = NoWriter
    /\ returned = Unused
    /\ prim = Unused /\ ray = Unused /\ hit = None /\ scene = Unused
    /\ IdleTrace
    /\ camera = Unused /\ x = 0 /\ y = 0
    /\ traced = <<>> /\ written = <<>> /\ output = Unused
    /\ args = Unused /\ file = Unused /\ stdout = Unused
    /\ queries = <<>> /\ attempts = 0

\* the first statement of render: PpmWriter::new(width, height).  Whether the
\* multiplications are checked is a property of the build.
CallPpmNew ==
    /\ pc = "call"
    /\ \E overflow_checks \in BOOLEAN :
         LET c == Capacity(width, height, overflow_checks)
         IN  /\ returned' = [overflow_checks |-> overflow_checks,
                             overflowed |-> c.overflowed]
             /\ IF c.panicked
                   THEN pc' = "panic" /\ writer' = writer
                   ELSE /\ pc' = "new"
                        /\ writer' = [width |-> width, height |-> height,
                                      pixels |-> <<>>, capacity |-> c.capacity]
    /\ UNCHANGED <<prim, ray, hit, scene, color, light_index, contrib, width, height,
                   camera, x, y, traced, written, output,
                   args, file, stdout, queries, attempts>>

NextCapacity == CallPpmNew

SpecCapacity == InitCapacity /\ [][NextCapacity]_vars

\* C21: width * height * 3, computed in u32, stays within the u32 range for
\* every width and height the command line accepts, so that constructing the
\* pixel buffer never overflows (and so never panics either).
C21_NoOverflow ==
    pc # "call" => ~returned.overflowed /\ pc # "panic"

\* the value of a u32 that is below 2^31
Value(a) == a[1] + Byte * (a[2] + Byte * (a[3] + Byte * a[4]))

\* a side below 2^14
Small(a) == a[2] < 64 /\ a[3] = 0 /\ a[4] = 0

\* what does hold: for sides below 2^14 (the default 800 x 600 among
\* them) nothing overflows in either build and the capacity asked for is
\* three bytes per pixel
C21_SmallSizes ==
    (pc # "call" /\ Small(width) /\ Small(height)) =>
        /\ pc = "new" /\ ~returned.overflowed
        /\ writer.capacity = U32(Value(width) * Value(height) * 3)
        /\ Value(writer.capacity) = Value(width) * Value(height) * 3

\* the default image has been constructed
C21_SmallSizesReached ==
    /\ pc = "new" /\ width = U32(800) /\ height = U32(600)
    /\ Value(writer.capacity) = 1440000

\* 65536 x 65536 panics in a build with overflow checks
C21_PanicReached ==
    pc = "panic" /\ width = U32(65536) /\ height = U32(65536)

\* 37838 x 37838 in a build without them: width * height fits, the factor 3
\* wraps, and the capacity asked for is 3 * 37838^2 - 2^32 = 175436
C21_WrapReached ==
    /\ pc = "new" /\ width = U32(37838) /\ height = U32(37838)
    /\ returned.overflowed /\ writer.capacity = U32(175436)

====
